---- MODULE Spec2Model ----
(***************************************************************************)
(* Hot-reload core of rebololang.                                          *)
(*                                                                         *)
(*   - the dev supervisor of cmd/rebolo/dev.go                             *)
(*     (startGoServerWithHotReload): one child process, restarted by a     *)
(*     500 ms restart-debounce timer;                                      *)
(*   - the FileWatcher of pkg/rebolo/watcher/watcher.go: per-path          *)
(*     debounce, classification by extension, statistics, fan-out to       *)
(*     subscriber channels.                                                *)
(*                                                                         *)
(* Time is discrete: one Tick is TickMs milliseconds.  A time.Time value   *)
(* is represented by the time elapsed since that instant, saturating at    *)
(* the window it is compared with, and a timer by the time left before     *)
(* it fires.                                                               *)
(***************************************************************************)
EXTENDS Integers, Sequences, FiniteSets, TLC

(***************************************************************************)
(* Bounds of the model.                                                    *)
(***************************************************************************)
\* one Tick of the clock, in milliseconds
TickMs == 100
\* successful spawns of the child in one behaviour
MaxGen == 3
\* qualifying Code events in one burst
MaxBurst == 5
\* admitted events in one behaviour of Spec (a buffer holds ChanCap)
MaxBusChanges == 11
\* admitted events in one behaviour of SpecEvents and SpecClassify
MaxEventChanges == 3
\* admitted events in one behaviour of SpecLife
MaxLifeChanges == 2
\* the observer's count of consecutive dropped events saturates here
MaxStreak == 2
\* rebuilds of the asset loop in one run
MaxAssetBuilds == 2
\* changes the FileWatcher handles in a run that is cancelled
MaxCancelChanges == 1
\* changes counted by the FileWatcher in a behaviour of SpecPoll
MaxPollChanges == 2
\* notifiers and pumps left behind in a behaviour of SpecRestart
MaxOrphans == 2
\* changes counted by the FileWatcher in a behaviour of SpecLocks
MaxLockChanges == 2
\* admitted events in one behaviour of SpecOrder
MaxOrderChanges == 3

(***************************************************************************)
(* Program constants.                                                      *)
(***************************************************************************)
\* dev.go:124 and :138, time.NewTimer / Reset(300 * time.Millisecond)
AssetDebounce == 300
\* dev.go:215 and :232, time.NewTimer / Reset(500 * time.Millisecond)
RestartDebounce == 500
\* watcher.go:186, now.Sub(lastTime) < 500*time.Millisecond
DebounceWindow == 500
\* watcher.go:221, make(chan FileChangeEvent, 10)
ChanCap == 10
\* the window of the long-poll endpoint (ms)
PollWindow == 2000

Min(a, b) == IF a < b THEN a ELSE b
Max(a, b) == IF a > b THEN a ELSE b

(***************************************************************************)
(* Paths are sequences of characters, so that filepath.Ext is computed     *)
(* and not assumed.                                                        *)
(***************************************************************************)
\* "main.go"
MainGo ==
    <<"m", "a", "i", "n", ".", "g", "o">>
\* "views/home/index.html"
IndexHtml ==
    <<"v", "i", "e", "w", "s", "/", "h", "o", "m", "e", "/", "i", "n", "d", "e", "x", ".", "h", "t", "m", "l">>
\* "readme.md"
ReadmeMd ==
    <<"r", "e", "a", "d", "m", "e", ".", "m", "d">>
\* "page.tmpl"
PageTmpl ==
    <<"p", "a", "g", "e", ".", "t", "m", "p", "l">>
\* "app.css"
AppCss ==
    <<"a", "p", "p", ".", "c", "s", "s">>
\* "bundle.js"
BundleJs ==
    <<"b", "u", "n", "d", "l", "e", ".", "j", "s">>
\* "x.ts"
XTs ==
    <<"x", ".", "t", "s">>
\* "form.jsx"
FormJsx ==
    <<"f", "o", "r", "m", ".", "j", "s", "x">>
\* "form.tsx"
FormTsx ==
    <<"f", "o", "r", "m", ".", "t", "s", "x">>
\* "INDEX.HTML"
UpperHtml ==
    <<"I", "N", "D", "E", "X", ".", "H", "T", "M", "L">>
\* "Makefile"
Makefile ==
    <<"M", "a", "k", "e", "f", "i", "l", "e">>
\* "v1.go/Makefile"
DottedDir ==
    <<"v", "1", ".", "g", "o", "/", "M", "a", "k", "e", "f", "i", "l", "e">>
\* "main.go.bak"
MainGoBak ==
    <<"m", "a", "i", "n", ".", "g", "o", ".", "b", "a", "k">>
\* "x.min.js"
MinJs ==
    <<"x", ".", "m", "i", "n", ".", "j", "s">>
\* ".go"
DotGoFile ==
    <<".", "g", "o">>

\* Fault model for Ext: the suffix of path from its first "."
RECURSIVE ExtFromFirstDot(_, _)
ExtFromFirstDot(path, i) ==
    IF i > Len(path) THEN <<>>
    ELSE IF path[i] = "." THEN SubSeq(path, i, Len(path))
    ELSE ExtFromFirstDot(path, i + 1)

ExtFirstDot(path) == ExtFromFirstDot(path, 1)

\* filepath.Ext: the suffix of path from the last "." of its last element,
\* scanning from the end and stopping at a path separator; <<>> if none.
RECURSIVE ExtFrom(_, _)
ExtFrom(path, i) ==
    IF i < 1 \/ path[i] = "/" THEN <<>>
    ELSE IF path[i] = "." THEN SubSeq(path, i, Len(path))
    ELSE ExtFrom(path, i - 1)

Ext(path) == ExtFrom(path, Len(path))

DotGo == <<".", "g", "o">>
DotHtml == <<".", "h", "t", "m", "l">>
DotTmpl == <<".", "t", "m", "p", "l">>
DotCss == <<".", "c", "s", "s">>
DotJs == <<".", "j", "s">>
DotTs == <<".", "t", "s">>
DotJsx == <<".", "j", "s", "x">>
DotTsx == <<".", "t", "s", "x">>

\* fsnotify.Op is a bit mask; an event carries a set of operation bits.
OpBits == {"Create", "Write", "Remove", "Rename", "Chmod"}

VARIABLES
    \* ---- supervisor (cmd/rebolo/dev.go) ----
    supPc,          \* where the supervisor goroutine is
    cmd,            \* the cmd variable: [set, proc]; proc = 0 is Process == nil
    gen,            \* processes started so far (the next pid is gen + 1)
    alive,          \* child processes that have not exited
    killed,         \* child processes sent a Kill
    timer,          \* the restart-debounce timer: [armed, left]
    cancelled,      \* ctx.Done() is closed
    serverStarted,  \* number of values in the serverStarted channel (cap 1)
    tree,           \* the project directory the supervisor was started in
    watched,        \* the directories registered with the supervisor's notifier
    spawnLog,       \* what the latest call of startServer logged
    \* ---- startDevServer and the asset coordinator (dev.go) ----
    devPc,          \* where startDevServer is
    bun,            \* whether the build tool can be had in this run, once
                    \* setupBunAndAssets has looked for it
    assetPc,        \* where watchAndCompileAssets is
    assetTimer,     \* its debounce timer: [armed, left]
    devLog,         \* the failure reports logged for the asset pipeline
    fallbacks,      \* calls of createFallbackAssets so far
    builds,         \* rebuilds the asset loop has run so far
    assetLast,      \* observer: the latest event the asset loop received,
                    \* and whether it reset the debounce timer
    \* ---- observers of the supervisor (not program state) ----
    sinceEv,        \* [seen, ms]: time since the last qualifying Code event
    sinceFirst,     \* time since the first event of the current burst
    burstLen,       \* qualifying Code events of the current burst
    burstSpan,      \* time between the first and the last event of the burst
    cycles,         \* restart cycles begun since the last qualifying Code event
    spawns,         \* spawn attempts made since the last qualifying Code event
    supLast,        \* the latest event the select loop received, and whether
                    \* it reset the restart timer
    selfExited,     \* the children that exited without having been sent a Kill
    \* ---- FileWatcher (pkg/rebolo/watcher/watcher.go) ----
    fwWatcher,      \* fw.watcher, the notifier: "nil", "open" or "closed"
    pumpPc,         \* where the processEvents goroutine is
    cur,            \* the fsnotify event handleEvent is working on
    eventType,      \* handleEvent's local eventType
    watchDirs,      \* fw.watchDirs: the roots to watch
    fwWatched,      \* the directories registered with fw.watcher
    fwLog,          \* the roots for which Start logged "Failed to watch"
    debounce,       \* fw.debounce: path -> time since the stored instant
    stats,          \* fw.stats
    subscribers,    \* fw.subscribers: a slice of channels
    chans,          \* the channels made by Subscribe: id -> [buf, closed]
    app,            \* the Application behind AppInterface
    panicked,       \* the run-time panic that ended the process, or "none"
    \* ---- observers of the FileWatcher (not program state) ----
    lastAdmit,      \* path -> time since the last event for it that was admitted
    verdict,        \* what shouldProcess decided for the latest raw event
    admitted,       \* raw events so far that were admitted: accepted by
                    \* shouldProcess, with a path that is not Ignored
    lastPublish,    \* the latest notifySubscribers call: the list it walked,
                    \* the channels whose buffer was full, the notifier's state
    lastClose,      \* the channels closed by the latest Close call
    summary,        \* what the latest Close call did about the statistics
                    \* summary: "logged" or "omitted" ("none" before Close)
    drops,          \* deliveries skipped so far because a buffer was full
    lastStamp,      \* path -> time since the Timestamp of the latest
                    \* FileChangeEvent made for it, and the channels it went to
    stampGap,       \* for the latest FileChangeEvent: how long after the
                    \* Timestamp of the one before it for the same path its own
                    \* Timestamp was taken, and whether one channel got both
    addFails,       \* the directories for which fw.watcher.Add failed in Start
    orphans,        \* what a later Start left behind: [open, closing], the
                    \* notifiers that are open and that fw.watcher no longer
                    \* refers to, each with the pump that waits on it, and
                    \* the pumps of closed notifiers that have not returned
    \* ---- locks, and the goroutines that take them besides the pump ----
    appMu,          \* Application.mu: [writer, readers]
    render,         \* a request handler that renders: [pc, how]
    statsMu,        \* fw.statsMu: [writer, readers]
    mu,             \* fw.mu: [writer, readers]
    caller,         \* a goroutine that calls Subscribe, Unsubscribe or
                    \* Stats: [op, ch], op = "none" between two calls
    closer,         \* the goroutine that calls Close: where it is
    snaps,          \* the two latest values returned by Stats(): [prev, last]
    \* ---- the long-poll endpoint (pkg/rebolo/rebolo.go) ----
    changeAge,      \* [seen, ms]: time since the instant in a.lastChangeTime
                    \* (seen = FALSE is the zero time.Time)
    qualAge,        \* observer, [seen, ms]: time since the latest event that
                    \* was admitted with a category of the table
    poll,           \* the latest response of hotReloadChangesHandler, and
                    \* what the time since that event asked for
    \* ---- observer of the deliveries ----
    order           \* channel -> [reg, unreg, got]: the events admitted and
                    \* the notifySubscribers calls made when it was
                    \* registered, the events admitted when it was
                    \* unsubscribed (-1 before), and the Timestamps of the
                    \* events put into its buffer so far

supVars == <<supPc, cmd, gen, alive, killed, timer, cancelled, serverStarted>>
supEnv == <<tree, watched, spawnLog>>
burstObs == <<sinceEv, sinceFirst, burstLen, burstSpan, cycles, spawns>>
supObs == <<burstObs, supLast, selfExited>>
supAll == <<supVars, supEnv, supObs>>
lockVars == <<statsMu, mu, caller, closer, snaps>>
syncVars == <<appMu, render, lockVars>>
fwReg == <<watchDirs, fwWatched, fwLog, addFails, orphans, syncVars>>
fwVars == <<fwWatcher, pumpPc, cur, eventType, debounce, stats, subscribers,
            chans, app, panicked>>
pollObs == <<changeAge, qualAge, poll>>
fwObs0 == <<lastAdmit, verdict, admitted, lastPublish, lastClose, summary,
            drops, lastStamp, stampGap, pollObs>>
fwObs == <<fwObs0, order>>
fwAll == <<fwReg, fwVars, fwObs>>
devAll == <<devPc, bun, assetPc, assetTimer, devLog, fallbacks, builds,
           assetLast>>
vars == <<supAll, devAll, fwAll>>

(***************************************************************************)
(* Supervisor: startGoServerWithHotReload.                                 *)
(***************************************************************************)
\* directory names
DotName == <<".">>
GitName == <<".", "g", "i", "t">>
CmdName == <<"c", "m", "d">>
ReboloName == <<"r", "e", "b", "o", "l", "o">>
PkgName == <<"p", "k", "g">>
LibName == <<"l", "i", "b">>
VendorName == <<"v", "e", "n", "d", "o", "r">>
NodeModulesName == <<"n", "o", "d", "e", "_", "m", "o", "d", "u", "l", "e", "s">>

\* A directory is the sequence of names that leads to it from the working
\* directory (<<>> is the working directory itself, "."); a tree gives, for
\* every directory that exists, the names of its subdirectories in the
\* lexical order in which filepath.Walk visits them.
NoTree == <<>> :> <<>>

\* a project with commands, a hidden directory and vendored code
ProjectWithCmd ==
    (<<>> :> <<GitName, CmdName, VendorName>>)
    @@ (<<GitName>> :> <<>>)
    @@ (<<CmdName>> :> <<ReboloName>>)
    @@ (<<CmdName, ReboloName>> :> <<>>)
    @@ (<<VendorName>> :> <<LibName>>)
    @@ (<<VendorName, LibName>> :> <<>>)

\* a project with one package directory and installed node modules
ProjectWithPkg ==
    (<<>> :> <<NodeModulesName, PkgName>>)
    @@ (<<NodeModulesName>> :> <<>>)
    @@ (<<PkgName>> :> <<>>)

\* a project whose Go files all sit in the working directory
ProjectFlat == <<>> :> <<>>

\* info.Name() of a directory the walk visits: the last element of its path;
\* for the root of the walk, the last element of the root as it was given
BaseName(dir, rootName) ==
    IF dir = <<>> THEN rootName ELSE dir[Len(dir)]

\* strings.HasPrefix(name, ".")
HasDotPrefix(name) ==
    Len(name) >= 1 /\ name[1] = "."

\* filepath.Walk over directories. The callback answers SkipDir for a
\* directory it skips (the walk does not descend), an error when
\* watcher.Add fails for it (the walk is abandoned and returns the error),
\* and nil otherwise; a root that does not exist is reported to the
\* callback as an error, which the callback returns.
RECURSIVE WalkDir(_, _, _, _, _, _)
RECURSIVE WalkKids(_, _, _, _, _, _, _)
WalkDir(kids, dir, rootName, skipNames, failing, acc) ==
    IF dir \notin DOMAIN kids
    THEN [watched |-> acc, err |-> "error"]
    ELSE IF \/ HasDotPrefix(BaseName(dir, rootName))
            \/ BaseName(dir, rootName) \in skipNames
    THEN [watched |-> acc, err |-> "SkipDir"]
    ELSE IF dir \in failing
    THEN [watched |-> acc, err |-> "error"]
    ELSE WalkKids(kids, dir, 1, rootName, skipNames, failing, acc \cup {dir})

WalkKids(kids, dir, i, rootName, skipNames, failing, acc) ==
    IF i > Len(kids[dir])
    THEN [watched |-> acc, err |-> "nil"]
    ELSE LET r == WalkDir(kids, Append(dir, kids[dir][i]), rootName,
                          skipNames, failing, acc)
         IN  IF r.err = "error"
             THEN r
             ELSE WalkKids(kids, dir, i + 1, rootName, skipNames, failing,
                           r.watched)

\* filepath.Walk(root, fn): a SkipDir answer for the root ends the walk
\* without an error
Walk(kids, root, rootName, skipNames, failing) ==
    LET r == WalkDir(kids, root, rootName, skipNames, failing, {})
    IN  [watched |-> r.watched,
         err |-> IF r.err = "SkipDir" THEN "nil" ELSE r.err]

\* dev.go:165-177: the walk of the supervisor, rooted at "."
SupWalk(project) ==
    Walk(project, <<>>, DotName, {VendorName, NodeModulesName}, {})

\* os.Exit ends every goroutine of the process: a coordinator that was
\* running is gone
AfterExit(pc) ==
    IF pc \in {"boot", "select"} THEN "killed" ELSE pc

ViewsName == <<"v", "i", "e", "w", "s">>
SrcName == <<"s", "r", "c">>
HomeName == <<"h", "o", "m", "e">>
UsersName == <<"u", "s", "e", "r", "s">>

\* the directories of an application: views with a hidden directory and
\* two template directories, src with installed node modules
AppTree ==
    (<<>> :> <<SrcName, ViewsName>>)
    @@ (<<SrcName>> :> <<NodeModulesName>>)
    @@ (<<SrcName, NodeModulesName>> :> <<>>)
    @@ (<<ViewsName>> :> <<GitName, HomeName, UsersName>>)
    @@ (<<ViewsName, GitName>> :> <<>>)
    @@ (<<ViewsName, HomeName>> :> <<>>)
    @@ (<<ViewsName, UsersName>> :> <<>>)

\* the roots given to NewFileWatcher (rebolo.go:236 names views, src, public
\* and controllers)
AppDirs == << <<ViewsName>>, <<SrcName>> >>

\* the latest event of the select loop, before there was one
NoSupEvent == [Name |-> <<>>, Op |-> {}, reset |-> FALSE]

\* Fault model for AfterSpawnFailure: a failed spawn that ends the supervisor
AfterSpawnFailureFatal ==
    [pc |-> "fatal", log |-> "Failed to start server"]

\* dev.go:199-202: when cmd.Start() fails, startServer logs the error and
\* returns, and the supervisor goes on to its select loop
AfterSpawnFailure ==
    [pc |-> "select", log |-> "Failed to start server"]

SupInit ==
    /\ supPc = "boot"
    /\ cmd = [set |-> FALSE, proc |-> 0]
    /\ gen = 0
    /\ alive = {}
    /\ killed = {}
    /\ timer = [armed |-> FALSE, left |-> 0]
    /\ cancelled = FALSE
    /\ serverStarted = 0
    /\ sinceEv = [seen |-> FALSE, ms |-> 0]
    /\ sinceFirst = 0
    /\ burstLen = 0
    /\ burstSpan = 0
    /\ cycles = 0
    /\ spawns = 0
    /\ tree = NoTree
    /\ watched = {}
    /\ spawnLog = "none"
    /\ supLast = NoSupEvent
    /\ selfExited = {}

\* Fault model for RestartCondition: only a Write counts
RestartConditionWriteOnly(ev) ==
    /\ "Write" \in ev.Op
    /\ Ext(ev.Name) = DotGo

\* dev.go:230, the condition under which an event resets the restart timer
RestartCondition(ev) ==
    /\ ev.Op \cap {"Write", "Create"} # {}
    /\ Ext(ev.Name) = DotGo

\* Fault model for ResetTimer: a Reset that leaves a running timer alone, so
\* that the timer fires one window after the first event of a burst
ResetTimerKeepsDeadline ==
    IF timer.armed THEN timer ELSE [armed |-> TRUE, left |-> RestartDebounce]

\* debounce.Reset(500 * time.Millisecond): the timer fires one full window
\* after the reset, whatever its state was (Go >= 1.23 timers: a Reset
\* discards a fire that was not yet received; the module's go.mod says 1.24)
ResetTimer ==
    [armed |-> TRUE, left |-> RestartDebounce]

\* cmd != nil && cmd.Process != nil
HasProcess ==
    cmd.set /\ cmd.proc # 0

\* Fault model for WaitReturns: a restart that does not wait for the child
WaitReturnsAtOnce ==
    TRUE

\* cmd.Wait() returns once the child has exited
WaitReturns ==
    cmd.proc \notin alive

\* dev.go:158-177 and :212: the notifier is created (log.Fatal, which is
\* os.Exit(1), if that fails), filepath.Walk(".") registers the directories
\* of the project (its result is dropped), and startServer is called
SupBoot(ok, project) ==
    /\ supPc = "boot"
    /\ supPc' = IF ok THEN "startServer" ELSE "fatal"
    /\ assetPc' = IF ok THEN assetPc ELSE AfterExit(assetPc)
    /\ tree' = project
    /\ watched' = IF ok THEN SupWalk(project).watched ELSE {}
    /\ UNCHANGED spawnLog
    /\ UNCHANGED <<cmd, gen, alive, killed, timer, cancelled, serverStarted>>
    /\ UNCHANGED supObs
    /\ UNCHANGED <<devPc, bun, assetTimer, devLog, fallbacks, builds,
                   assetLast>>
    /\ UNCHANGED fwAll

\* startServer, dev.go:185-191: cmd.Process.Kill() when there is a process
StartServerKill ==
    /\ supPc = "startServer"
    /\ IF HasProcess
       THEN /\ killed' = killed \cup {cmd.proc}
            /\ supPc' = "wait"
       ELSE /\ killed' = killed
            /\ supPc' = "spawn"
    /\ UNCHANGED <<cmd, gen, alive, timer, cancelled, serverStarted>>
    /\ UNCHANGED supEnv
    /\ UNCHANGED supObs
    /\ UNCHANGED <<fwAll, devAll>>

\* startServer, dev.go:188: cmd.Wait() blocks until the child has exited
StartServerWait ==
    /\ supPc = "wait"
    /\ WaitReturns
    /\ supPc' = "spawn"
    /\ UNCHANGED <<cmd, gen, alive, killed, timer, cancelled, serverStarted>>
    /\ UNCHANGED supEnv
    /\ UNCHANGED supObs
    /\ UNCHANGED <<fwAll, devAll>>

\* startServer, dev.go:194-208: exec.Command and cmd.Start(); on failure the
\* error is logged and cmd is left without a process
StartServerSpawn(ok) ==
    /\ supPc = "spawn"
    /\ IF ok
       THEN /\ gen' = gen + 1
            /\ cmd' = [set |-> TRUE, proc |-> gen + 1]
            /\ alive' = alive \cup {gen + 1}
            /\ serverStarted' = Min(serverStarted + 1, 1)
       ELSE /\ gen' = gen
            /\ cmd' = [set |-> TRUE, proc |-> 0]
            /\ alive' = alive
            /\ serverStarted' = serverStarted
    /\ supPc' = IF ok THEN "select" ELSE AfterSpawnFailure.pc
    /\ spawnLog' = IF ok THEN "none" ELSE AfterSpawnFailure.log
    /\ assetPc' = IF supPc' = "fatal" THEN AfterExit(assetPc) ELSE assetPc
    /\ spawns' = spawns + 1
    /\ UNCHANGED <<tree, watched>>
    /\ UNCHANGED <<killed, timer, cancelled>>
    /\ UNCHANGED <<sinceEv, sinceFirst, burstLen, burstSpan, cycles, supLast,
                   selfExited>>
    /\ UNCHANGED <<devPc, bun, assetTimer, devLog, fallbacks, builds,
                   assetLast>>
    /\ UNCHANGED fwAll

\* a qualifying Code event in the words of the spec: a Write or Create of a
\* .go file (used by the observers only)
IsCodeSave(ev) ==
    /\ ("Write" \in ev.Op \/ "Create" \in ev.Op)
    /\ Len(ev.Name) >= 3
    /\ SubSeq(ev.Name, Len(ev.Name) - 2, Len(ev.Name)) = DotGo

\* the select loop, dev.go:225-233: an event from watcher.Events
SupEvent(ev) ==
    /\ supPc = "select"
    /\ timer' = IF RestartCondition(ev) THEN ResetTimer ELSE timer
    /\ IF IsCodeSave(ev)
       THEN /\ sinceEv' = [seen |-> TRUE, ms |-> 0]
            /\ cycles' = 0
            /\ spawns' = 0
            /\ IF sinceEv.seen /\ cycles = 0
               THEN /\ burstLen' = burstLen + 1
                    /\ burstSpan' = sinceFirst
                    /\ sinceFirst' = sinceFirst
               ELSE /\ burstLen' = 1
                    /\ burstSpan' = 0
                    /\ sinceFirst' = 0
       ELSE UNCHANGED burstObs
    /\ supLast' = [Name |-> ev.Name, Op |-> ev.Op,
                   reset |-> RestartCondition(ev)]
    /\ UNCHANGED selfExited
    /\ UNCHANGED supEnv
    /\ UNCHANGED <<supPc, cmd, gen, alive, killed, cancelled, serverStarted>>
    /\ UNCHANGED <<fwAll, devAll>>

\* the select loop, dev.go:234-235: the restart timer has fired
SupTimerFire ==
    /\ supPc = "select"
    /\ timer.armed /\ timer.left = 0
    /\ timer' = [armed |-> FALSE, left |-> 0]
    /\ supPc' = "startServer"
    /\ cycles' = cycles + 1
    /\ UNCHANGED <<cmd, gen, alive, killed, cancelled, serverStarted>>
    /\ UNCHANGED <<sinceEv, sinceFirst, burstLen, burstSpan, spawns, supLast,
                   selfExited>>
    /\ UNCHANGED supEnv
    /\ UNCHANGED <<fwAll, devAll>>

\* the select loop, dev.go:220-224: ctx is done; the child is sent a Kill
\* (it is not waited for) and the function returns
SupDone ==
    /\ supPc = "select"
    /\ cancelled
    /\ killed' = IF HasProcess THEN killed \cup {cmd.proc} ELSE killed
    /\ supPc' = "exited"
    /\ UNCHANGED <<cmd, gen, alive, timer, cancelled, serverStarted>>
    /\ UNCHANGED supEnv
    /\ UNCHANGED supObs
    /\ UNCHANGED <<fwAll, devAll>>

\* dev.go:30-34: an interrupt or SIGTERM arrives and cancel() is called
Cancel ==
    /\ ~cancelled
    /\ supPc \notin {"boot", "fatal"}
    /\ cancelled' = TRUE
    /\ UNCHANGED <<supPc, cmd, gen, alive, killed, timer, serverStarted>>
    /\ UNCHANGED supEnv
    /\ UNCHANGED supObs
    /\ UNCHANGED <<fwAll, devAll>>

\* Fault model for ChildExit: a supervisor that replaces a child that
\* exits while it waits in its select loop
ChildExitRestarts(c) ==
    /\ c \in alive
    /\ alive' = alive \ {c}
    /\ selfExited' = IF c \in killed THEN selfExited ELSE selfExited \cup {c}
    /\ supPc' = IF supPc = "select" /\ c \notin killed
                THEN "startServer" ELSE supPc
    /\ UNCHANGED <<cmd, gen, killed, timer, cancelled, serverStarted>>
    /\ UNCHANGED supEnv
    /\ UNCHANGED <<burstObs, supLast>>
    /\ UNCHANGED <<fwAll, devAll>>

\* a child process exits: on its own, or because it was killed.  Nothing in
\* startGoServerWithHotReload waits for the child outside startServer
\* (dev.go:188), so the supervisor does not learn of it.
ChildExit(c) ==
    /\ c \in alive
    /\ alive' = alive \ {c}
    /\ selfExited' = IF c \in killed THEN selfExited ELSE selfExited \cup {c}
    /\ UNCHANGED <<supPc, cmd, gen, killed, timer, cancelled, serverStarted>>
    /\ UNCHANGED supEnv
    /\ UNCHANGED <<burstObs, supLast>>
    /\ UNCHANGED <<fwAll, devAll>>

(***************************************************************************)
(* startDevServer without a frontend directory, and the asset coordinator  *)
(* watchAndCompileAssets.                                                  *)
(***************************************************************************)
DevInit ==
    /\ devPc = "start"
    /\ bun = "unknown"
    /\ assetPc = "none"
    /\ assetTimer = [armed |-> FALSE, left |-> 0]
    /\ devLog = [degraded |-> 0, failed |-> 0]
    /\ fallbacks = 0
    /\ builds = 0
    /\ assetLast = NoSupEvent

\* buildAssets, dev.go:267-283: it fails when src/index.js is missing or
\* when "bun build" cannot be run or fails
BuildAssetsOk(ok) ==
    bun = "available" /\ ok

\* dev.go:54, setupBunAndAssets (dev.go:65-96).  When bun is neither in PATH
\* nor under ~/.bun and cannot be installed, the failure and the use of
\* fallback assets are logged and createFallbackAssets is called; when the
\* first build fails, that is logged and createFallbackAssets is called.
DevSetup(found, ok) ==
    /\ devPc = "start"
    /\ devPc' = "launch"
    /\ bun' = IF found THEN "available" ELSE "unavailable"
    /\ IF ~found
       THEN /\ devLog' = [devLog EXCEPT !.degraded = @ + 1]
            /\ fallbacks' = fallbacks + 1
       ELSE IF ok
       THEN UNCHANGED <<devLog, fallbacks>>
       ELSE /\ devLog' = [devLog EXCEPT !.failed = @ + 1]
            /\ fallbacks' = fallbacks + 1
    /\ UNCHANGED <<assetPc, assetTimer, builds, assetLast>>
    /\ UNCHANGED <<supAll, fwAll>>

\* dev.go:57: go watchAndCompileAssets(ctx), and startDevServer goes on to
\* startGoServerWithHotReload (dev.go:61)
DevLaunch ==
    /\ devPc = "launch"
    /\ devPc' = "serve"
    /\ assetPc' = "boot"
    /\ UNCHANGED <<bun, assetTimer, devLog, fallbacks, builds, assetLast>>
    /\ UNCHANGED <<supAll, fwAll>>

\* watchAndCompileAssets, dev.go:100-125: the notifier is created and the
\* directories under src are registered; if either fails, the failure is
\* logged and the function returns
AssetBoot(ok) ==
    /\ assetPc = "boot"
    /\ assetPc' = IF ok THEN "select" ELSE "failed"
    /\ UNCHANGED <<devPc, bun, assetTimer, devLog, fallbacks, builds,
                   assetLast>>
    /\ UNCHANGED <<supAll, fwAll>>

\* dev.go:135-137, the condition under which an event resets the timer
RebuildCondition(ev) ==
    /\ ev.Op \cap {"Write", "Create"} # {}
    /\ Ext(ev.Name) \in {DotCss, DotJs, DotTs}

\* the select loop, dev.go:131-140: an event from watcher.Events
AssetEvent(ev) ==
    /\ assetPc = "select"
    /\ assetTimer' = IF RebuildCondition(ev)
                     THEN [armed |-> TRUE, left |-> AssetDebounce]
                     ELSE assetTimer
    /\ assetLast' = [Name |-> ev.Name, Op |-> ev.Op,
                     reset |-> RebuildCondition(ev)]
    /\ UNCHANGED <<devPc, bun, assetPc, devLog, fallbacks, builds>>
    /\ UNCHANGED <<supAll, fwAll>>

\* the select loop, dev.go:141-147: the timer has fired and buildAssets is
\* called; a failure is logged, and nothing else is done about it
AssetTimerFire(ok) ==
    /\ assetPc = "select"
    /\ assetTimer.armed /\ assetTimer.left = 0
    /\ assetTimer' = [armed |-> FALSE, left |-> 0]
    /\ builds' = builds + 1
    /\ devLog' = IF BuildAssetsOk(ok) THEN devLog
                 ELSE [devLog EXCEPT !.failed = @ + 1]
    /\ UNCHANGED <<devPc, bun, assetPc, fallbacks, assetLast>>
    /\ UNCHANGED <<supAll, fwAll>>

\* the select loop, dev.go:129-130: ctx is done; the function returns and
\* the deferred watcher.Close() runs (dev.go:105)
AssetDone ==
    /\ assetPc = "select"
    /\ cancelled
    /\ assetPc' = "exited"
    /\ UNCHANGED <<devPc, bun, assetTimer, devLog, fallbacks, builds,
                   assetLast>>
    /\ UNCHANGED <<supAll, fwAll>>

(***************************************************************************)
(* FileWatcher.                                                            *)
(***************************************************************************)
NoEvent == [Name |-> <<>>, Op |-> {}]
NoVerdict ==
    [Name |-> <<>>, first |-> TRUE, gap |-> 0, passed |-> FALSE, streak |-> 0]
NoPublish == [subs |-> <<>>, full |-> {}, watcher |-> "nil"]
NoStamp == [gap |-> DebounceWindow, both |-> FALSE]
NoAge == [seen |-> FALSE, ms |-> 0]
\* a sync.RWMutex that nobody holds
FreeLock == [writer |-> "none", readers |-> 0]
NoCall == [op |-> "none", ch |-> 0]
NoPoll == [polled |-> FALSE, changed |-> FALSE, expected |-> FALSE]
EmptyMap == [p \in {} |-> 0]

\* m[k] = v in a Go map
Put(m, k, v) ==
    [x \in DOMAIN m \cup {k} |-> IF x = k THEN v ELSE m[x]]

\* The classification table of the spec, applied by hand to the paths of the
\* model (used by the observers and the properties only)
TableCategory(path) ==
    CASE path \in {IndexHtml, PageTmpl} -> "Template"
      [] path \in {AppCss, BundleJs, XTs, FormJsx, FormTsx, MinJs} -> "Asset"
      [] path \in {MainGo, DotGoFile} -> "Code"
      [] path \in {ReadmeMd, UpperHtml, Makefile, DottedDir, MainGoBak} -> "Ignored"

\* NewFileWatcher, watcher.go:51-61, and a fresh Application
FwInit ==
    /\ fwWatcher = "nil"
    /\ pumpPc = "none"
    /\ cur = NoEvent
    /\ eventType = ""
    /\ debounce = EmptyMap
    /\ stats = [TotalChanges |-> 0, TemplateChanges |-> 0, AssetChanges |-> 0,
                CodeChanges |-> 0, LastChangeTime |-> 0]
    /\ subscribers = <<>>
    /\ chans = <<>>
    /\ app = [renderer |-> 0, lastChangeTime |-> 0]
    /\ panicked = "none"
    /\ lastAdmit = EmptyMap
    /\ verdict = NoVerdict
    /\ admitted = 0
    /\ lastPublish = NoPublish
    /\ lastClose = {}
    /\ summary = "none"
    /\ changeAge = NoAge
    /\ qualAge = NoAge
    /\ poll = NoPoll
    /\ order = <<>>
    /\ drops = 0
    /\ lastStamp = EmptyMap
    /\ stampGap = NoStamp
    /\ watchDirs = AppDirs
    /\ fwWatched = {}
    /\ fwLog = {}
    /\ addFails = {}
    /\ orphans = [open |-> 0, closing |-> 0]
    /\ appMu = FreeLock
    /\ render = [pc |-> "idle", how |-> "none"]
    /\ statsMu = FreeLock
    /\ mu = FreeLock
    /\ caller = NoCall
    /\ closer = "idle"
    /\ snaps = [prev |-> stats, last |-> stats]

\* addRecursive, watcher.go:93-107: the walk of one root; hidden
\* directories and node_modules are skipped, and a failing fw.watcher.Add
\* is returned from the callback
AddRecursive(dir, failing) ==
    Walk(AppTree, dir, dir[Len(dir)], {NodeModulesName}, failing)

\* Start, watcher.go:72-78: the loop over fw.watchDirs from index i on; a
\* root whose walk returned an error is logged and the loop continues
RECURSIVE AddRoots(_, _, _, _, _)
AddRoots(dirs, i, failing, acc, logged) ==
    IF i > Len(dirs) THEN [watched |-> acc, logged |-> logged]
    ELSE LET r == AddRecursive(dirs[i], failing) IN
         AddRoots(dirs, i + 1, failing, acc \cup r.watched,
                  IF r.err = "nil" THEN logged ELSE logged \cup {dirs[i]})

\* Start, watcher.go:64-84: fsnotify.NewWatcher() may fail, and then Start
\* returns the error; otherwise the roots are registered and the pump
\* goroutine is started.  failing is the set of directories for which
\* fw.watcher.Add fails.  Start is called once, on a new FileWatcher
\* (EnableHotReload, rebolo.go:236-239).
StartOn(dirs, ok, failing) ==
    /\ panicked = "none"
    /\ fwWatcher = "nil" /\ pumpPc = "none"
    /\ watchDirs' = dirs
    /\ fwWatcher' = IF ok THEN "open" ELSE "nil"
    /\ pumpPc' = IF ok THEN "select" ELSE "none"
    /\ LET r == AddRoots(dirs, 1, failing, {}, {}) IN
       /\ fwWatched' = IF ok THEN r.watched ELSE fwWatched
       /\ fwLog' = IF ok THEN r.logged ELSE fwLog
    /\ addFails' = IF ok THEN failing ELSE addFails
    /\ orphans' = orphans
    /\ UNCHANGED syncVars
    /\ UNCHANGED <<cur, eventType, debounce, stats, subscribers, chans, app,
                   panicked>>
    /\ UNCHANGED fwObs
    /\ UNCHANGED <<supAll, devAll>>

\* Start, watcher.go:64-84, called on a FileWatcher whose fw.watcher is set
\* already (Start or Watch called again, before or after Close), while the
\* pump waits in its select or has returned.  Nothing in Start looks at
\* the old notifier: fw.watcher is overwritten (:69), so that a notifier
\* that was open stays open with nothing left that could close it, and the
\* pump started for it goes on waiting on its channels; a second pump is
\* started (:81).
StartAgainOn(dirs, ok, failing) ==
    /\ panicked = "none"
    /\ fwWatcher # "nil" /\ pumpPc \in {"select", "done"}
    /\ watchDirs' = dirs
    /\ fwWatcher' = IF ok THEN "open" ELSE fwWatcher
    /\ pumpPc' = IF ok THEN "select" ELSE pumpPc
    /\ orphans' =
          IF ~ok THEN orphans
          ELSE [open |-> orphans.open
                           + (IF fwWatcher = "open" THEN 1 ELSE 0),
                closing |-> orphans.closing
                           + (IF fwWatcher = "closed" /\ pumpPc = "select"
                              THEN 1 ELSE 0)]
    /\ LET r == AddRoots(dirs, 1, failing, {}, {}) IN
       /\ fwWatched' = IF ok THEN r.watched ELSE fwWatched
       /\ fwLog' = IF ok THEN r.logged ELSE fwLog
    /\ addFails' = IF ok THEN failing ELSE addFails
    /\ UNCHANGED syncVars
    /\ UNCHANGED <<cur, eventType, debounce, stats, subscribers, chans, app,
                   panicked>>
    /\ UNCHANGED fwObs
    /\ UNCHANGED <<supAll, devAll>>

\* processEvents, watcher.go:113-116, in a pump left behind whose notifier
\* was closed: it returns
OrphanPumpExit ==
    /\ panicked = "none"
    /\ orphans.closing > 0
    /\ orphans' = [orphans EXCEPT !.closing = @ - 1]
    /\ UNCHANGED <<watchDirs, fwWatched, fwLog, addFails>>
    /\ UNCHANGED syncVars
    /\ UNCHANGED <<fwVars, fwObs>>
    /\ UNCHANGED <<supAll, devAll>>

\* the notifiers made by this FileWatcher that are open, and its pumps
\* that have not returned
Notifiers ==
    (IF fwWatcher = "open" THEN 1 ELSE 0) + orphans.open

Pumps ==
    (IF pumpPc \in {"none", "done"} THEN 0 ELSE 1)
        + orphans.open + orphans.closing

Start(ok, failing) ==
    StartOn(watchDirs, ok, failing)

\* Watch, watcher.go:87-90: fw.watchDirs = dirs, then Start; the context it
\* is given is not used
Watch(dirs, ok, failing) ==
    StartOn(dirs, ok, failing)

\* Fault model for ShouldProcess: no debounce at all
ShouldProcessAlways(path) ==
    TRUE

\* shouldProcess, watcher.go:184-191: the verdict for path
ShouldProcess(path) ==
    ~(path \in DOMAIN debounce /\ debounce[path] < DebounceWindow)

\* Fault model for DebounceAfter: the instant is stored for a dropped event
\* too, so that the window restarts at every raw event
DebounceAfterRefresh(path) ==
    Put(debounce, path, 0)

\* shouldProcess, watcher.go:190: the map after the call
DebounceAfter(path) ==
    IF ShouldProcess(path) THEN Put(debounce, path, 0) ELSE debounce

\* processEvents receives ev from fw.watcher.Events and handleEvent calls
\* shouldProcess (watcher.go:113-117, 128-132, 180-192)
HandleEvent(ev) ==
    /\ panicked = "none"
    /\ fwWatcher = "open" /\ pumpPc = "select"
    /\ debounce' = DebounceAfter(ev.Name)
    /\ IF ShouldProcess(ev.Name)
       THEN /\ pumpPc' = "classify"
            /\ cur' = ev
            /\ lastAdmit' = Put(lastAdmit, ev.Name, 0)
            /\ admitted' = admitted
                  + (IF TableCategory(ev.Name) = "Ignored" THEN 0 ELSE 1)
       ELSE /\ pumpPc' = "select"
            /\ cur' = NoEvent
            /\ lastAdmit' = lastAdmit
            /\ admitted' = admitted
    /\ verdict' =
          [Name |-> ev.Name,
           first |-> ev.Name \notin DOMAIN lastAdmit,
           gap |-> IF ev.Name \in DOMAIN lastAdmit THEN lastAdmit[ev.Name] ELSE 0,
           passed |-> ShouldProcess(ev.Name),
           streak |-> IF verdict.Name = ev.Name /\ ~verdict.passed
                      THEN Min(verdict.streak + 1, MaxStreak) ELSE 0]
    /\ UNCHANGED <<fwWatcher, eventType, stats, subscribers, chans, app,
                   panicked, lastPublish, lastClose, summary, drops,
                   lastStamp, stampGap>>
    /\ UNCHANGED <<pollObs, order>>
    /\ UNCHANGED fwReg
    /\ UNCHANGED <<supAll, devAll>>

\* handleEvent, watcher.go:137-149: the switch on the extension; "" stands
\* for the default branch, which returns
Classify(ext) ==
    CASE ext \in {DotHtml, DotTmpl} -> "template"
      [] ext \in {DotCss, DotJs, DotTs, DotJsx, DotTsx} -> "asset"
      [] ext = DotGo -> "code"
      [] OTHER -> ""

\* Application.UpdateLastChangeTime(time.Now()), rebolo.go:435-439.  The
\* instant stored is represented by the number of the call that stored it
\* (0 is the zero time.Time).
UpdateLastChangeTime(a) ==
    [a EXCEPT !.lastChangeTime = @ + 1]

\* Application.ReloadTemplates, rebolo.go:442-446: a new renderer, the
\* renderer being represented by the number of the call that made it
ReloadTemplates(a) ==
    [a EXCEPT !.renderer = @ + 1]

\* handleEvent, watcher.go:134-149, with reloadTemplates (:195-205) and
\* recompileAssets (:208-214)
SwitchOnExt ==
    /\ panicked = "none"
    /\ pumpPc = "classify"
    /\ LET t == Classify(Ext(cur.Name)) IN
       /\ eventType' = t
       /\ app' = CASE t = "template" -> UpdateLastChangeTime(ReloadTemplates(app))
                   [] t = "asset" -> UpdateLastChangeTime(app)
                   [] OTHER -> app
       /\ pumpPc' = IF t = "" THEN "select" ELSE "stats"
       /\ cur' = IF t = "" THEN NoEvent ELSE cur
    /\ UNCHANGED <<fwWatcher, debounce, stats, subscribers, chans, panicked>>
    /\ UNCHANGED <<lastAdmit, verdict, admitted, lastPublish, lastClose,
                   summary, drops, lastStamp, stampGap>>
    /\ UNCHANGED fwReg
    /\ UNCHANGED <<supAll, devAll>>

\* the step above where the instant stored by UpdateLastChangeTime is not
\* followed
HandleEventClassify ==
    /\ SwitchOnExt
    /\ UNCHANGED <<pollObs, order>>

\* Fault model for ChangeAgeAfter: the instant is stored for every category
ChangeAgeAfterAny(t) ==
    IF t # "" THEN [seen |-> TRUE, ms |-> 0] ELSE changeAge

\* reloadTemplates, watcher.go:201, and recompileAssets, watcher.go:211:
\* fw.app.UpdateLastChangeTime(time.Now()); the "code" branch
\* (watcher.go:144-146) and the default branch do not call it
ChangeAgeAfter(t) ==
    IF t \in {"template", "asset"} THEN [seen |-> TRUE, ms |-> 0] ELSE changeAge

\* the step above where that instant is followed, and the instant of the
\* latest event that left the switch with a category
HandleEventClassifyTimed ==
    /\ SwitchOnExt
    /\ LET t == Classify(Ext(cur.Name)) IN
       /\ changeAge' = ChangeAgeAfter(t)
       /\ qualAge' = IF TableCategory(cur.Name) # "Ignored"
                     THEN [seen |-> TRUE, ms |-> 0] ELSE qualAge
    /\ UNCHANGED <<poll, order>>

\* hotReloadChangesHandler, rebolo.go:256-280: a.lastChangeTime is read
\* under a.mu.RLock and "changed" is time.Since(lastChange) < 2 s.  The
\* zero time.Time is further back than any window.
Changed ==
    changeAge.seen /\ changeAge.ms < PollWindow

Poll ==
    /\ panicked = "none"
    /\ poll' = [polled |-> TRUE,
                changed |-> Changed,
                expected |-> qualAge.seen /\ qualAge.ms < PollWindow]
    /\ UNCHANGED <<changeAge, qualAge, order>>
    /\ UNCHANGED <<lastAdmit, verdict, admitted, lastPublish, lastClose,
                   summary, drops, lastStamp, stampGap>>
    /\ UNCHANGED <<fwReg, fwVars>>
    /\ UNCHANGED <<supAll, devAll>>

\* sync.RWMutex: Lock is granted when nobody holds the lock
CanLock(l) ==
    l.writer = "none" /\ l.readers = 0

\* Fault model for CanRLock: a read lock that is granted beside a writer
CanRLockBesideWriter(l) ==
    TRUE

\* sync.RWMutex: RLock is granted when no writer holds the lock
CanRLock(l) ==
    l.writer = "none"

\* reloadTemplates, watcher.go:200, in steps: a.mu.Lock() in
\* Application.ReloadTemplates (rebolo.go:443) is granted, and the pump is
\* about to assign a.renderer (:445)
ReloadBegin ==
    /\ panicked = "none"
    /\ pumpPc = "classify"
    /\ Classify(Ext(cur.Name)) = "template"
    /\ CanLock(appMu)
    /\ appMu' = [appMu EXCEPT !.writer = "pump"]
    /\ pumpPc' = "reload"
    /\ UNCHANGED <<fwWatcher, cur, eventType, debounce, stats, subscribers,
                   chans, app, panicked>>
    /\ UNCHANGED <<watchDirs, fwWatched, fwLog, addFails, orphans, render>>
    /\ UNCHANGED lockVars
    /\ UNCHANGED fwObs
    /\ UNCHANGED <<supAll, devAll>>

\* rebolo.go:445 and the deferred Unlock: a.renderer is assigned and the
\* lock is released
ReloadEnd ==
    /\ panicked = "none"
    /\ pumpPc = "reload"
    /\ app' = ReloadTemplates(app)
    /\ appMu' = [appMu EXCEPT !.writer = "none"]
    /\ pumpPc' = "touch"
    /\ UNCHANGED <<fwWatcher, cur, eventType, debounce, stats, subscribers,
                   chans, panicked>>
    /\ UNCHANGED <<watchDirs, fwWatched, fwLog, addFails, orphans, render>>
    /\ UNCHANGED lockVars
    /\ UNCHANGED fwObs
    /\ UNCHANGED <<supAll, devAll>>

\* reloadTemplates, watcher.go:201: UpdateLastChangeTime (rebolo.go:435-439)
\* takes a.mu once more; handleEvent then goes on to the statistics
ReloadTouch ==
    /\ panicked = "none"
    /\ pumpPc = "touch"
    /\ CanLock(appMu)
    /\ app' = UpdateLastChangeTime(app)
    /\ eventType' = "template"
    /\ pumpPc' = "stats"
    /\ UNCHANGED <<fwWatcher, cur, debounce, stats, subscribers, chans,
                   panicked>>
    /\ UNCHANGED fwReg
    /\ UNCHANGED fwObs
    /\ UNCHANGED <<supAll, devAll>>

\* the handleEvent switch for the paths that are not templates, in one step
ClassifyOther ==
    /\ Classify(Ext(cur.Name)) # "template"
    /\ Classify(Ext(cur.Name)) = "asset" => CanLock(appMu)
    /\ HandleEventClassify

\* Application.RenderHTML, rebolo.go:306-310, takes a.mu.RLock before it
\* reads a.renderer; RenderJSON (:312-314) and RenderError (:316-318) read
\* it with no lock.  hotReloadChangesHandler answers through RenderJSON
\* (:279).
RenderLocks(how) ==
    how = "RenderHTML"

\* a request handler begins to render: it reads a.renderer and calls the
\* renderer it found
RenderBegin(how) ==
    /\ panicked = "none"
    /\ render.pc = "idle"
    /\ RenderLocks(how) => CanRLock(appMu)
    /\ appMu' = IF RenderLocks(how)
                THEN [appMu EXCEPT !.readers = @ + 1] ELSE appMu
    /\ render' = [pc |-> "reading", how |-> how]
    /\ UNCHANGED <<watchDirs, fwWatched, fwLog, addFails, orphans>>
    /\ UNCHANGED lockVars
    /\ UNCHANGED <<fwVars, fwObs>>
    /\ UNCHANGED <<supAll, devAll>>

\* the call returns, and the deferred RUnlock of RenderHTML runs
RenderEnd ==
    /\ panicked = "none"
    /\ render.pc = "reading"
    /\ appMu' = IF RenderLocks(render.how)
                THEN [appMu EXCEPT !.readers = @ - 1] ELSE appMu
    /\ render' = [pc |-> "idle", how |-> "none"]
    /\ UNCHANGED <<watchDirs, fwWatched, fwLog, addFails, orphans>>
    /\ UNCHANGED lockVars
    /\ UNCHANGED <<fwVars, fwObs>>
    /\ UNCHANGED <<supAll, devAll>>

\* Fault model for StatsAfter: a change is counted only when somebody
\* is subscribed
StatsAfterSubscribed(t) ==
    IF subscribers = <<>> THEN stats
    ELSE [stats EXCEPT !.TotalChanges = @ + 1, !.LastChangeTime = @ + 1]

\* handleEvent, watcher.go:152-163, under statsMu.  LastChangeTime is
\* represented by the number of the change that stamped it.
StatsAfter(t) ==
    [TotalChanges |-> stats.TotalChanges + 1,
     TemplateChanges |-> stats.TemplateChanges + (IF t = "template" THEN 1 ELSE 0),
     AssetChanges |-> stats.AssetChanges + (IF t = "asset" THEN 1 ELSE 0),
     CodeChanges |-> stats.CodeChanges + (IF t = "code" THEN 1 ELSE 0),
     LastChangeTime |-> stats.TotalChanges + 1]

HandleEventStats ==
    /\ panicked = "none"
    /\ pumpPc = "stats"
    /\ stats' = StatsAfter(eventType)
    /\ pumpPc' = "notify"
    /\ UNCHANGED <<fwWatcher, cur, eventType, debounce, subscribers, chans,
                   app, panicked>>
    /\ UNCHANGED fwObs
    /\ UNCHANGED fwReg
    /\ UNCHANGED <<supAll, devAll>>

\* Fault model for TrySend: the event is put into the buffer twice
TrySendTwice(c, ev) ==
    IF Len(c.buf) + 1 < ChanCap
    THEN [chan |-> [c EXCEPT !.buf = Append(Append(@, ev), ev)],
          outcome |-> "sent"]
    ELSE [chan |-> c, outcome |-> "skipped"]

\* Fault model for TrySend: a plain send, which waits for room in the buffer
TrySendWaits(c, ev) ==
    IF Len(c.buf) < ChanCap
    THEN [chan |-> [c EXCEPT !.buf = Append(@, ev)], outcome |-> "sent"]
    ELSE [chan |-> c, outcome |-> "blocked"]

\* notifySubscribers, watcher.go:246-250: select { case ch <- event:
\* default: } on one channel.  The send is taken when the buffer has room,
\* the default branch otherwise; the statement never waits.
TrySend(c, ev) ==
    IF Len(c.buf) < ChanCap
    THEN [chan |-> [c EXCEPT !.buf = Append(@, ev)], outcome |-> "sent"]
    ELSE [chan |-> c, outcome |-> "skipped"]

\* notifySubscribers, watcher.go:245-251: the loop over fw.subscribers from
\* index i on.  A send on a closed channel panics.
RECURSIVE NotifyFrom(_, _, _, _)
NotifyFrom(chs, subs, i, ev) ==
    IF i > Len(subs) THEN [chans |-> chs, end |-> "none"]
    ELSE IF chs[subs[i]].closed
    THEN [chans |-> chs, end |-> "send on closed channel"]
    ELSE LET r == TrySend(chs[subs[i]], ev) IN
         IF r.outcome = "blocked" THEN [chans |-> chs, end |-> "blocked"]
         ELSE NotifyFrom([chs EXCEPT ![subs[i]] = r.chan], subs, i + 1, ev)

\* handleEvent, watcher.go:166-176: the FileChangeEvent and
\* notifySubscribers (:241-252), under mu.RLock.  The Timestamp of the
\* event is time.Now() at this point (watcher.go:169); it is not kept in
\* the buffers of the model but followed by lastStamp and stampGap.
ChangeEvent ==
    [Path |-> cur.Name, EventType |-> eventType]

NotifyOf(ev) ==
    /\ panicked = "none"
    /\ pumpPc = "notify"
    /\ LET r == NotifyFrom(chans, subscribers, 1, ev) IN
       /\ r.end # "blocked"
       /\ chans' = r.chans
       /\ panicked' = r.end
    /\ pumpPc' = "select"
    /\ cur' = NoEvent
    /\ eventType' = ""
    /\ lastPublish' =
          [subs |-> subscribers,
           full |-> {subscribers[i] : i \in
                        {j \in DOMAIN subscribers :
                            Len(chans[subscribers[j]].buf) >= ChanCap}},
           watcher |-> fwWatcher]
    /\ drops' = drops + Cardinality(
                    {j \in DOMAIN subscribers :
                        /\ ~chans[subscribers[j]].closed
                        /\ Len(chans[subscribers[j]].buf) >= ChanCap})
    /\ UNCHANGED <<fwWatcher, debounce, stats, subscribers, app>>
    /\ UNCHANGED <<lastAdmit, verdict, admitted, lastClose, summary>>
    /\ UNCHANGED pollObs
    /\ UNCHANGED fwReg
    /\ UNCHANGED <<supAll, devAll>>

\* the call with the event as the model keeps it in the buffers
NotifySubscribers ==
    /\ NotifyOf(ChangeEvent)
    /\ UNCHANGED order

\* the step above where the Timestamps of the events are not followed
HandleEventNotify ==
    /\ NotifySubscribers
    /\ UNCHANGED <<lastStamp, stampGap>>

\* the step above where the Timestamp of the event is followed: how long
\* after the Timestamp of the latest event for the same path it was taken,
\* and whether a channel that got that event gets this one too
HandleEventNotifyStamped ==
    /\ NotifySubscribers
    /\ LET to == {subscribers[i] : i \in
                     {j \in DOMAIN subscribers :
                         /\ ~chans[subscribers[j]].closed
                         /\ Len(chans[subscribers[j]].buf) < ChanCap}}
           before == IF cur.Name \in DOMAIN lastStamp
                     THEN lastStamp[cur.Name]
                     ELSE [ms |-> DebounceWindow, to |-> {}]
       IN  /\ stampGap' = [gap |-> before.ms, both |-> before.to \cap to # {}]
           /\ lastStamp' = Put(lastStamp, cur.Name, [ms |-> 0, to |-> to])

\* handleEvent, watcher.go:166-170: the FileChangeEvent told apart from
\* every other one by the number of its admission, which stands for the
\* identity of the event the pump holds
NumberedEvent ==
    [Path |-> cur.Name, EventType |-> eventType, Seq |-> admitted]

\* the numbers of the events a buffer holds from position n + 1 on
SeqsAfter(buf, n) ==
    [i \in 1..(Len(buf) - n) |-> buf[n + i].Seq]

\* the step above where the deliveries are followed: every channel's record
\* gains the events that this call put into its buffer
HandleEventNotifyOrdered ==
    /\ NotifyOf(NumberedEvent)
    /\ order' = [ch \in DOMAIN order |->
                    [order[ch] EXCEPT
                        !.got = @ \o SeqsAfter(chans'[ch].buf,
                                               Len(chans[ch].buf))]]
    /\ UNCHANGED <<lastStamp, stampGap>>

\* processEvents, watcher.go:113-116: the Events channel is closed once the
\* notifier is closed, and the pump returns
PumpExit ==
    /\ panicked = "none"
    /\ pumpPc = "select" /\ fwWatcher = "closed"
    /\ pumpPc' = "done"
    /\ UNCHANGED <<fwWatcher, cur, eventType, debounce, stats, subscribers,
                   chans, app, panicked>>
    /\ UNCHANGED fwObs
    /\ UNCHANGED fwReg
    /\ UNCHANGED <<supAll, devAll>>

\* Subscribe, watcher.go:217-224, under mu.Lock
SubscribeAppend ==
    /\ panicked = "none"
    /\ chans' = Append(chans, [buf |-> <<>>, closed |-> FALSE])
    /\ subscribers' = Append(subscribers, Len(chans) + 1)
    /\ UNCHANGED <<fwWatcher, pumpPc, cur, eventType, debounce, stats, app,
                   panicked>>
    /\ UNCHANGED fwObs0
    /\ UNCHANGED fwReg
    /\ UNCHANGED <<supAll, devAll>>

\* the call where the deliveries to the new channel are not followed
Subscribe ==
    /\ SubscribeAppend
    /\ UNCHANGED order

\* the events admitted so far whose notifySubscribers call has returned:
\* all but the one the pump holds between shouldProcess (watcher.go:130)
\* and notifySubscribers (watcher.go:176)
Published ==
    admitted - (IF /\ pumpPc \in {"classify", "stats", "notify"}
                   /\ TableCategory(cur.Name) # "Ignored"
                THEN 1 ELSE 0)

\* the call where the deliveries to the new channel are followed: what had
\* been admitted and what had been published when it was registered
SubscribeOrdered ==
    /\ SubscribeAppend
    /\ order' = Append(order, [reg |-> admitted, pub |-> Published,
                               unreg |-> -1, got |-> <<>>])

\* the index of the first element of subs equal to ch, or 0
RECURSIVE IndexOf(_, _, _)
IndexOf(subs, ch, i) ==
    IF i > Len(subs) THEN 0
    ELSE IF subs[i] = ch THEN i
    ELSE IndexOf(subs, ch, i + 1)

\* append(s[:i], s[i+1:]...)
RemoveAt(subs, i) ==
    SubSeq(subs, 1, i - 1) \o SubSeq(subs, i + 1, Len(subs))

\* Fault model for UnsubscribeList: the closed channel stays in the slice
UnsubscribeKeepsList(i) ==
    subscribers

\* Unsubscribe, watcher.go:234: the slice after the channel at i was closed
UnsubscribeList(i) ==
    RemoveAt(subscribers, i)

\* Unsubscribe, watcher.go:227-238, under mu.Lock.  ch = 0 is a channel
\* this FileWatcher did not make.  Closing a closed channel panics.
UnsubscribeClose(ch) ==
    /\ panicked = "none"
    /\ LET i == IndexOf(subscribers, ch, 1) IN
       IF i = 0
       THEN UNCHANGED <<subscribers, chans, panicked>>
       ELSE IF chans[ch].closed
       THEN /\ panicked' = "close of closed channel"
            /\ UNCHANGED <<subscribers, chans>>
       ELSE /\ chans' = [chans EXCEPT ![ch].closed = TRUE]
            /\ subscribers' = UnsubscribeList(i)
            /\ panicked' = panicked
    /\ UNCHANGED <<fwWatcher, pumpPc, cur, eventType, debounce, stats, app>>
    /\ UNCHANGED fwObs0
    /\ UNCHANGED fwReg
    /\ UNCHANGED <<supAll, devAll>>

\* the call where the deliveries to the channel are not followed
Unsubscribe(ch) ==
    /\ UnsubscribeClose(ch)
    /\ UNCHANGED order

\* the call where the deliveries to the channel are followed: what had been
\* admitted when the channel was closed and removed
UnsubscribeOrdered(ch) ==
    /\ UnsubscribeClose(ch)
    /\ order' = IF IndexOf(subscribers, ch, 1) # 0 /\ ~chans[ch].closed
                THEN [order EXCEPT ![ch].unreg = admitted]
                ELSE order

\* Stats, watcher.go:255-259: a copy of the counters, under statsMu.RLock
Stats ==
    stats

\* Fault model for CloseFrom: Close closes no channel
CloseNothing(chs, subs, i) ==
    [chans |-> chs, end |-> "none"]

\* Close, watcher.go:276-278: close(ch) for the channels of subs from i on
RECURSIVE CloseFrom(_, _, _)
CloseFrom(chs, subs, i) ==
    IF i > Len(subs) THEN [chans |-> chs, end |-> "none"]
    ELSE IF chs[subs[i]].closed
    THEN [chans |-> chs, end |-> "close of closed channel"]
    ELSE CloseFrom([chs EXCEPT ![subs[i]].closed = TRUE], subs, i + 1)

\* Fault model for CloseList: Close leaves the closed channels in the slice
CloseKeepsList ==
    subscribers

\* Close, watcher.go:279: fw.subscribers = nil
CloseList ==
    <<>>

\* Close, watcher.go:267-273: the statistics are read under statsMu.RLock
\* and the summary line is printed when TotalChanges > 0
CloseSummary(st) ==
    IF st.TotalChanges > 0 THEN "logged" ELSE "omitted"

\* Close, watcher.go:262-282, under mu.Lock.  fw.watcher.Close() on a
\* notifier that was never created dereferences nil; on a closed notifier
\* it returns nil.
Close ==
    /\ panicked = "none"
    /\ LET r == CloseFrom(chans, subscribers, 1) IN
       /\ chans' = r.chans
       /\ IF r.end # "none"
          THEN /\ panicked' = r.end
               /\ UNCHANGED <<subscribers, fwWatcher>>
          ELSE /\ subscribers' = CloseList
               /\ panicked' = IF fwWatcher = "nil"
                              THEN "nil pointer dereference" ELSE "none"
               /\ fwWatcher' = IF fwWatcher = "nil" THEN "nil" ELSE "closed"
    /\ lastClose' = {subscribers[i] : i \in DOMAIN subscribers}
    /\ summary' = CloseSummary(Stats)
    /\ UNCHANGED <<pumpPc, cur, eventType, debounce, stats, app>>
    /\ UNCHANGED <<lastAdmit, verdict, admitted, lastPublish, drops,
                   lastStamp, stampGap>>
    /\ UNCHANGED <<pollObs, order>>
    /\ UNCHANGED fwReg
    /\ UNCHANGED <<supAll, devAll>>

\* the holder of a channel returned by Subscribe receives from it
Receive(ch) ==
    /\ panicked = "none"
    /\ ch \in DOMAIN chans
    /\ chans[ch].buf # <<>>
    /\ chans' = [chans EXCEPT ![ch].buf = Tail(@)]
    /\ UNCHANGED <<fwWatcher, pumpPc, cur, eventType, debounce, stats,
                   subscribers, app, panicked>>
    /\ UNCHANGED fwObs
    /\ UNCHANGED fwReg
    /\ UNCHANGED <<supAll, devAll>>

\* every stored instant of m is d milliseconds older, up to the window
Age(m, d, window) ==
    [x \in DOMAIN m |-> Min(window, m[x] + d)]

(***************************************************************************)
(* The same code with its locks: the steps of handleEvent, Subscribe,      *)
(* Unsubscribe, Stats and Close at which a lock is taken or given back.    *)
(* fw.debounceMu is taken and released inside shouldProcess by the pump    *)
(* alone (watcher.go:181-182), so HandleEvent stays one step.              *)
(***************************************************************************)
\* what the steps below leave alone
RegUnchanged ==
    UNCHANGED <<watchDirs, fwWatched, fwLog, addFails, orphans, appMu, render>>

\* handleEvent, watcher.go:152: fw.statsMu.Lock()
StatsLock ==
    /\ panicked = "none"
    /\ pumpPc = "stats"
    /\ CanLock(statsMu)
    /\ statsMu' = [statsMu EXCEPT !.writer = "pump"]
    /\ pumpPc' = "statsTotal"
    /\ UNCHANGED <<fwWatcher, cur, eventType, debounce, stats, subscribers,
                   chans, app, panicked>>
    /\ UNCHANGED <<mu, caller, closer, snaps>>
    /\ RegUnchanged
    /\ UNCHANGED fwObs
    /\ UNCHANGED <<supAll, devAll>>

\* handleEvent, watcher.go:153-154: TotalChanges++ and LastChangeTime
StatsTotal ==
    /\ panicked = "none"
    /\ pumpPc = "statsTotal"
    /\ stats' = [stats EXCEPT !.TotalChanges = @ + 1,
                              !.LastChangeTime = stats.TotalChanges + 1]
    /\ pumpPc' = "statsCategory"
    /\ UNCHANGED <<fwWatcher, cur, eventType, debounce, subscribers, chans,
                   app, panicked>>
    /\ UNCHANGED lockVars
    /\ RegUnchanged
    /\ UNCHANGED fwObs
    /\ UNCHANGED <<supAll, devAll>>

\* the counter of the switch at watcher.go:155-162
CategoryField(t) ==
    CASE t = "template" -> "TemplateChanges"
      [] t = "asset" -> "AssetChanges"
      [] t = "code" -> "CodeChanges"

\* Fault model for StatsUnlock: the lock is kept
StatsUnlockMissing(l) ==
    l

\* handleEvent, watcher.go:163: fw.statsMu.Unlock()
StatsUnlock(l) ==
    [l EXCEPT !.writer = "none"]

\* handleEvent, watcher.go:155-163: the counter of the category, and Unlock
StatsCategory ==
    /\ panicked = "none"
    /\ pumpPc = "statsCategory"
    /\ stats' = [stats EXCEPT ![CategoryField(eventType)] = @ + 1]
    /\ statsMu' = StatsUnlock(statsMu)
    /\ pumpPc' = "rlock"
    /\ UNCHANGED <<fwWatcher, cur, eventType, debounce, subscribers, chans,
                   app, panicked>>
    /\ UNCHANGED <<mu, caller, closer, snaps>>
    /\ RegUnchanged
    /\ UNCHANGED fwObs
    /\ UNCHANGED <<supAll, devAll>>

\* notifySubscribers, watcher.go:242: fw.mu.RLock()
NotifyRLock ==
    /\ panicked = "none"
    /\ pumpPc = "rlock"
    /\ CanRLock(mu)
    /\ mu' = [mu EXCEPT !.readers = @ + 1]
    /\ pumpPc' = "notify"
    /\ UNCHANGED <<fwWatcher, cur, eventType, debounce, stats, subscribers,
                   chans, app, panicked>>
    /\ UNCHANGED <<statsMu, caller, closer, snaps>>
    /\ RegUnchanged
    /\ UNCHANGED fwObs
    /\ UNCHANGED <<supAll, devAll>>

\* notifySubscribers, watcher.go:245-251 and the deferred RUnlock: the
\* sends, none of which waits, and handleEvent returns
NotifyLocked ==
    /\ panicked = "none"
    /\ pumpPc = "notify"
    /\ mu.readers > 0
    /\ LET r == NotifyFrom(chans, subscribers, 1, ChangeEvent) IN
       /\ r.end # "blocked"
       /\ chans' = r.chans
       /\ panicked' = r.end
    /\ mu' = [mu EXCEPT !.readers = @ - 1]
    /\ pumpPc' = "select"
    /\ cur' = NoEvent
    /\ eventType' = ""
    /\ UNCHANGED <<fwWatcher, debounce, stats, subscribers, app>>
    /\ UNCHANGED <<statsMu, caller, closer, snaps>>
    /\ RegUnchanged
    /\ UNCHANGED fwObs
    /\ UNCHANGED <<supAll, devAll>>

\* a goroutine calls Subscribe(), Unsubscribe(ch) or Stats() on the started
\* FileWatcher; the call returns in one of the three steps below
CallBegin(op, ch) ==
    /\ panicked = "none"
    /\ fwWatcher # "nil"
    /\ caller = NoCall
    /\ caller' = [op |-> op, ch |-> ch]
    /\ UNCHANGED <<statsMu, mu, closer, snaps>>
    /\ RegUnchanged
    /\ UNCHANGED <<fwVars, fwObs>>
    /\ UNCHANGED <<supAll, devAll>>

\* Subscribe, watcher.go:217-224: the whole call, once fw.mu.Lock() is
\* granted
SubscribeLocked ==
    /\ panicked = "none"
    /\ caller.op = "Subscribe"
    /\ CanLock(mu)
    /\ chans' = Append(chans, [buf |-> <<>>, closed |-> FALSE])
    /\ subscribers' = Append(subscribers, Len(chans) + 1)
    /\ caller' = NoCall
    /\ UNCHANGED <<fwWatcher, pumpPc, cur, eventType, debounce, stats, app,
                   panicked>>
    /\ UNCHANGED <<statsMu, mu, closer, snaps>>
    /\ RegUnchanged
    /\ UNCHANGED fwObs
    /\ UNCHANGED <<supAll, devAll>>

\* Unsubscribe, watcher.go:227-238: the whole call, once fw.mu.Lock() is
\* granted
UnsubscribeLocked ==
    /\ panicked = "none"
    /\ caller.op = "Unsubscribe"
    /\ CanLock(mu)
    /\ LET i == IndexOf(subscribers, caller.ch, 1) IN
       IF i = 0
       THEN UNCHANGED <<subscribers, chans, panicked>>
       ELSE IF chans[caller.ch].closed
       THEN /\ panicked' = "close of closed channel"
            /\ UNCHANGED <<subscribers, chans>>
       ELSE /\ chans' = [chans EXCEPT ![caller.ch].closed = TRUE]
            /\ subscribers' = UnsubscribeList(i)
            /\ panicked' = panicked
    /\ caller' = NoCall
    /\ UNCHANGED <<fwWatcher, pumpPc, cur, eventType, debounce, stats, app>>
    /\ UNCHANGED <<statsMu, mu, closer, snaps>>
    /\ RegUnchanged
    /\ UNCHANGED fwObs
    /\ UNCHANGED <<supAll, devAll>>

\* Stats, watcher.go:255-259: the copy, once fw.statsMu.RLock() is granted
StatsLocked ==
    /\ panicked = "none"
    /\ caller.op = "Stats"
    /\ CanRLock(statsMu)
    /\ snaps' = [prev |-> snaps.last, last |-> Stats]
    /\ caller' = NoCall
    /\ UNCHANGED <<statsMu, mu, closer>>
    /\ RegUnchanged
    /\ UNCHANGED <<fwVars, fwObs>>
    /\ UNCHANGED <<supAll, devAll>>

\* a goroutine calls Close() on the started FileWatcher (Shutdown,
\* rebolo.go:293-296)
CloseBegin ==
    /\ panicked = "none"
    /\ fwWatcher = "open"
    /\ closer = "idle"
    /\ closer' = "wait"
    /\ UNCHANGED <<statsMu, mu, caller, snaps>>
    /\ RegUnchanged
    /\ UNCHANGED <<fwVars, fwObs>>
    /\ UNCHANGED <<supAll, devAll>>

\* Close, watcher.go:263: fw.mu.Lock() is granted
CloseLock ==
    /\ panicked = "none"
    /\ closer = "wait"
    /\ CanLock(mu)
    /\ mu' = [mu EXCEPT !.writer = "closer"]
    /\ closer' = "locked"
    /\ UNCHANGED <<statsMu, caller, snaps>>
    /\ RegUnchanged
    /\ UNCHANGED <<fwVars, fwObs>>
    /\ UNCHANGED <<supAll, devAll>>

\* Close, watcher.go:267-281 and the deferred Unlock: with fw.mu held, the
\* statistics are copied once fw.statsMu.RLock() is granted, the channels
\* and the notifier are closed, and Close returns
CloseLocked ==
    /\ panicked = "none"
    /\ closer = "locked"
    /\ CanRLock(statsMu)
    /\ summary' = CloseSummary(Stats)
    /\ LET r == CloseFrom(chans, subscribers, 1) IN
       /\ chans' = r.chans
       /\ panicked' = r.end
    /\ subscribers' = CloseList
    /\ fwWatcher' = "closed"
    /\ lastClose' = {subscribers[i] : i \in DOMAIN subscribers}
    /\ mu' = [mu EXCEPT !.writer = "none"]
    /\ closer' = "done"
    /\ UNCHANGED <<pumpPc, cur, eventType, debounce, stats, app>>
    /\ UNCHANGED <<statsMu, caller, snaps>>
    /\ RegUnchanged
    /\ UNCHANGED <<lastAdmit, verdict, admitted, lastPublish, drops,
                   lastStamp, stampGap>>
    /\ UNCHANGED <<pollObs, order>>
    /\ UNCHANGED <<supAll, devAll>>

\* a stored instant is d milliseconds older, up to the window
AgeOf(a, d, window) ==
    IF a.seen THEN [a EXCEPT !.ms = Min(window, @ + d)] ELSE a

\* time passes.  A timer that is due is received by the select loop before
\* more time passes.
Tick ==
    /\ ~(supPc = "select" /\ timer.armed /\ timer.left = 0)
    /\ ~(assetPc = "select" /\ assetTimer.armed /\ assetTimer.left = 0)
    /\ assetTimer' = IF assetTimer.armed
                     THEN [assetTimer EXCEPT !.left = Max(0, @ - TickMs)]
                     ELSE assetTimer
    /\ UNCHANGED <<devPc, bun, assetPc, devLog, fallbacks, builds, assetLast>>
    /\ UNCHANGED supEnv
    /\ timer' = IF timer.armed
                THEN [timer EXCEPT !.left = Max(0, timer.left - TickMs)]
                ELSE timer
    /\ sinceEv' = IF sinceEv.seen
                  THEN [sinceEv EXCEPT !.ms = Min(RestartDebounce, @ + TickMs)]
                  ELSE sinceEv
    /\ sinceFirst' = IF sinceEv.seen
                     THEN Min(RestartDebounce, sinceFirst + TickMs)
                     ELSE sinceFirst
    /\ debounce' = Age(debounce, TickMs, DebounceWindow)
    /\ lastAdmit' = Age(lastAdmit, TickMs, DebounceWindow)
    /\ lastStamp' = [x \in DOMAIN lastStamp |->
                       [lastStamp[x] EXCEPT
                           !.ms = Min(DebounceWindow, @ + TickMs)]]
    /\ UNCHANGED <<supPc, cmd, gen, alive, killed, cancelled, serverStarted>>
    /\ UNCHANGED <<burstLen, burstSpan, cycles, spawns, supLast, selfExited>>
    /\ UNCHANGED <<fwWatcher, pumpPc, cur, eventType, stats, subscribers,
                   chans, app, panicked>>
    /\ changeAge' = AgeOf(changeAge, TickMs, PollWindow)
    /\ qualAge' = AgeOf(qualAge, TickMs, PollWindow)
    /\ UNCHANGED <<verdict, admitted, lastPublish, lastClose, summary,
                   drops, stampGap, poll, order>>
    /\ UNCHANGED fwReg

Init ==
    /\ SupInit
    /\ DevInit
    /\ FwInit

\* the events the notifier of the supervisor delivers
Projects == {ProjectWithCmd, ProjectWithPkg, ProjectFlat}
SupPaths == {MainGo, IndexHtml, ReadmeMd}
SupOps == {{"Write"}, {"Create"}, {"Chmod"}, {"Remove"}}

SupEventBounded ==
    \E p \in SupPaths, op \in SupOps :
        LET ev == [Name |-> p, Op |-> op] IN
        /\ IsCodeSave(ev) =>
              /\ gen < MaxGen
              /\ (burstLen < MaxBurst \/ cycles > 0)
        /\ SupEvent(ev)

SupNext ==
    \/ \E ok \in BOOLEAN, project \in Projects : SupBoot(ok, project)
    \/ StartServerKill
    \/ StartServerWait
    \/ \E ok \in BOOLEAN : StartServerSpawn(ok)
    \/ SupEventBounded
    \/ SupTimerFire
    \/ SupDone
    \/ Cancel
    \/ \E c \in alive : ChildExit(c)
    \/ Tick

SpecSup == Init /\ [][SupNext]_vars

(***************************************************************************)
(* The dev command: startDevServer, the asset coordinator it starts, and   *)
(* the start of the supervisor.                                            *)
(***************************************************************************)
DevPaths == {AppCss, FormJsx, MainGo}
DevOps == {{"Write"}, {"Chmod"}}

DevAssetEvent ==
    \E p \in DevPaths, op \in DevOps :
        LET ev == [Name |-> p, Op |-> op] IN
        /\ RebuildCondition(ev) => builds < MaxAssetBuilds
        /\ AssetEvent(ev)

\* dev.go:61: startDevServer calls startGoServerWithHotReload
DevSupBoot ==
    /\ devPc = "serve"
    /\ \E ok \in BOOLEAN, project \in {ProjectFlat} : SupBoot(ok, project)

DevNext ==
    \/ \E found \in BOOLEAN, ok \in BOOLEAN : DevSetup(found, ok)
    \/ DevLaunch
    \/ \E ok \in BOOLEAN : AssetBoot(ok)
    \/ DevAssetEvent
    \/ \E ok \in BOOLEAN : AssetTimerFire(ok)
    \/ AssetDone
    \/ DevSupBoot
    \/ StartServerKill
    \/ \E ok \in BOOLEAN : StartServerSpawn(ok)
    \/ SupDone
    \/ Cancel
    \/ \E c \in alive : ChildExit(c)
    \/ Tick

SpecDev == Init /\ [][DevNext]_vars

(***************************************************************************)
(* The FileWatcher with one path and two subscribers, for as many events   *)
(* as overflow a buffer: the fan-out.                                      *)
(***************************************************************************)
BusPaths == {MainGo}
BusOps == {{"Write"}}
BusChans == {1, 2}

BusEvent ==
    \E p \in BusPaths, op \in BusOps :
        /\ stats.TotalChanges < MaxBusChanges
        /\ HandleEvent([Name |-> p, Op |-> op])

BusSubscribe ==
    /\ Len(chans) + 1 \in BusChans
    /\ Subscribe

Next ==
    \/ \E ok \in BOOLEAN : Start(ok, {})
    \/ BusEvent
    \/ HandleEventClassify
    \/ HandleEventStats
    \/ HandleEventNotify
    \/ BusSubscribe
    \/ \E ch \in BusChans : Receive(ch)
    \/ Tick

Spec == Init /\ [][Next]_vars

(***************************************************************************)
(* The FileWatcher with three paths and one subscriber: the debounce.      *)
(***************************************************************************)
EventPaths == {IndexHtml, MainGo, ReadmeMd}
EventOps == {{"Write"}, {"Create"}}
EventChans == {1}

RawEvent ==
    \E p \in EventPaths, op \in EventOps :
        /\ stats.TotalChanges < MaxEventChanges
        /\ HandleEvent([Name |-> p, Op |-> op])

EventSubscribe ==
    /\ Len(chans) + 1 \in EventChans
    /\ Subscribe

EventsNext ==
    \/ \E ok \in BOOLEAN : Start(ok, {})
    \/ RawEvent
    \/ HandleEventClassify
    \/ HandleEventStats
    \/ HandleEventNotify
    \/ EventSubscribe
    \/ \E ch \in EventChans : Receive(ch)
    \/ Tick

SpecEvents == Init /\ [][EventsNext]_vars

(***************************************************************************)
(* The FileWatcher with two paths and one subscriber, the Timestamps of    *)
(* the events followed: the handling time between the debounce check and   *)
(* the making of the event.                                                *)
(***************************************************************************)
StampPaths == {IndexHtml, MainGo}

StampEvent ==
    \E p \in StampPaths :
        /\ stats.TotalChanges < MaxEventChanges
        /\ HandleEvent([Name |-> p, Op |-> {"Write"}])

StampsNext ==
    \/ \E ok \in BOOLEAN : Start(ok, {})
    \/ StampEvent
    \/ HandleEventClassify
    \/ HandleEventStats
    \/ HandleEventNotifyStamped
    \/ EventSubscribe
    \/ \E ch \in EventChans : Receive(ch)
    \/ Tick

SpecStamps == Init /\ [][StampsNext]_vars

(***************************************************************************)
(* The FileWatcher with one path and three subscribers: Subscribe,         *)
(* Unsubscribe and Close against the pump.                                 *)
(***************************************************************************)
LifePaths == {MainGo}
LifeOps == {{"Write"}}
LifeChans == {1, 2, 3}

LifeEvent ==
    \E p \in LifePaths, op \in LifeOps :
        /\ stats.TotalChanges < MaxLifeChanges
        /\ HandleEvent([Name |-> p, Op |-> op])

LifeSubscribe ==
    /\ Len(chans) + 1 \in LifeChans
    /\ Subscribe

LifeNext ==
    \/ \E ok \in BOOLEAN : Start(ok, {})
    \/ LifeEvent
    \/ HandleEventClassify
    \/ HandleEventStats
    \/ HandleEventNotify
    \/ PumpExit
    \/ LifeSubscribe
    \/ \E ch \in LifeChans \cup {0} : Unsubscribe(ch)
    \/ Close
    \/ \E ch \in LifeChans : Receive(ch)
    \/ Tick

SpecLife == Init /\ [][LifeNext]_vars

(***************************************************************************)
(* The FileWatcher started on the roots of an application, where the       *)
(* registration of a directory can fail.                                   *)
(***************************************************************************)
StartFailures ==
    {{}, {<<ViewsName>>}, {<<ViewsName, HomeName>>},
     {<<ViewsName, UsersName>>}, {<<SrcName>>}}

StartNext ==
    \/ \E ok \in BOOLEAN, failing \in StartFailures : Start(ok, failing)
    \/ LifeEvent
    \/ HandleEventClassify
    \/ HandleEventStats
    \/ HandleEventNotify
    \/ EventSubscribe
    \/ \E ch \in EventChans : Receive(ch)
    \/ Tick

SpecStart == Init /\ [][StartNext]_vars

(***************************************************************************)
(* Cancellation: the loops that are handed the context of the dev command  *)
(* or of the caller of Watch, under fair scheduling of their steps.        *)
(***************************************************************************)
CancelEvent ==
    /\ stats.TotalChanges < MaxCancelChanges
    /\ verdict.streak = 0
    /\ HandleEvent([Name |-> MainGo, Op |-> {"Write"}])

PumpStep ==
    \/ HandleEventClassify
    \/ HandleEventStats
    \/ HandleEventNotify
    \/ PumpExit

SupStep ==
    \/ DevSupBoot
    \/ StartServerKill
    \/ \E ok \in BOOLEAN : StartServerSpawn(ok)
    \/ SupDone

AssetStep ==
    \/ \E ok \in BOOLEAN : AssetBoot(ok)
    \/ AssetDone

CancelNext ==
    \/ \E ok \in BOOLEAN : Watch(AppDirs, ok, {})
    \/ CancelEvent
    \/ PumpStep
    \/ Close
    \/ \E found \in BOOLEAN, ok \in BOOLEAN : DevSetup(found, ok)
    \/ DevLaunch
    \/ AssetStep
    \/ SupStep
    \/ Cancel
    \/ \E c \in alive : ChildExit(c)

SpecCancel ==
    /\ Init
    /\ [][CancelNext]_vars
    /\ WF_vars(PumpStep)
    /\ WF_vars(SupStep)
    /\ WF_vars(AssetStep)
    /\ WF_vars(DevLaunch)

(***************************************************************************)
(* One FileWatcher whose Start, Watch and Close are called in any order    *)
(* and any number of times, no file being changed meanwhile.               *)
(***************************************************************************)
RestartDirs == {AppDirs, << <<ViewsName>> >>}

RestartNext ==
    \/ \E ok \in BOOLEAN : Start(ok, {})
    \/ \E dirs \in RestartDirs, ok \in BOOLEAN : Watch(dirs, ok, {})
    \/ \E dirs \in RestartDirs, ok \in BOOLEAN :
          /\ orphans.open + orphans.closing < MaxOrphans
          /\ StartAgainOn(dirs, ok, {})
    \/ PumpExit
    \/ OrphanPumpExit
    \/ EventSubscribe
    \/ Close

SpecRestart == Init /\ [][RestartNext]_vars

(***************************************************************************)
(* The pump reloading the templates of the application while a request     *)
(* handler renders: the steps of Application.mu.                           *)
(***************************************************************************)
RenderPaths == {IndexHtml, PageTmpl, MainGo}
RenderCalls == {"RenderHTML", "RenderJSON", "RenderError"}

RenderEvent ==
    \E p \in RenderPaths :
        /\ stats.TotalChanges < MaxPollChanges
        /\ HandleEvent([Name |-> p, Op |-> {"Write"}])

RenderNext ==
    \/ \E ok \in BOOLEAN : Start(ok, {})
    \/ RenderEvent
    \/ ReloadBegin
    \/ ReloadEnd
    \/ ReloadTouch
    \/ ClassifyOther
    \/ HandleEventStats
    \/ HandleEventNotify
    \/ \E how \in RenderCalls : RenderBegin(how)
    \/ RenderEnd

SpecRender == Init /\ [][RenderNext]_vars

(***************************************************************************)
(* The pump against a goroutine that calls Subscribe, Unsubscribe and      *)
(* Stats and a goroutine that calls Close, lock by lock.  Every goroutine  *)
(* that can take a step infinitely often does take one: the locks of Go    *)
(* hand a lock over to a goroutine that waits for it.                      *)
(***************************************************************************)
LockPaths == {MainGo, IndexHtml}
LockChans == {1, 2}
LockCalls == {"Subscribe", "Unsubscribe", "Stats"}

LockEvent ==
    \E p \in LockPaths :
        /\ stats.TotalChanges < MaxLockChanges
        /\ HandleEvent([Name |-> p, Op |-> {"Write"}])

LockPump ==
    \/ HandleEventClassify
    \/ StatsLock
    \/ StatsTotal
    \/ StatsCategory
    \/ NotifyRLock
    \/ NotifyLocked
    \/ PumpExit

LockCall ==
    \E op \in LockCalls, ch \in LockChans \cup {0} :
        /\ op = "Subscribe" => (ch = 0 /\ Len(chans) + 1 \in LockChans)
        /\ op = "Unsubscribe" => ch # 0
        /\ op = "Stats" => ch = 0
        /\ CallBegin(op, ch)

LockReturn ==
    \/ SubscribeLocked
    \/ UnsubscribeLocked
    \/ StatsLocked

LockClose ==
    \/ CloseLock
    \/ CloseLocked

LocksNext ==
    \/ \E ok \in BOOLEAN : Start(ok, {})
    \/ LockEvent
    \/ LockPump
    \/ LockCall
    \/ LockReturn
    \/ CloseBegin
    \/ LockClose

SpecLocks ==
    /\ Init
    /\ [][LocksNext]_vars
    /\ SF_vars(LockPump)
    /\ SF_vars(LockReturn)
    /\ SF_vars(LockClose)

(***************************************************************************)
(* The pump and two subscribers that come and go while events are on       *)
(* their way: each event carries the number of its admission.              *)
(***************************************************************************)
OrderPaths == {MainGo, IndexHtml, AppCss, ReadmeMd}
OrderChans == {1, 2}

OrderEvent ==
    \E p \in OrderPaths :
        /\ stats.TotalChanges < MaxOrderChanges
        /\ HandleEvent([Name |-> p, Op |-> {"Write"}])

OrderSubscribe ==
    /\ Len(chans) + 1 \in OrderChans
    /\ SubscribeOrdered

OrderNext ==
    \/ \E ok \in BOOLEAN : Start(ok, {})
    \/ OrderEvent
    \/ HandleEventClassify
    \/ HandleEventStats
    \/ HandleEventNotifyOrdered
    \/ OrderSubscribe
    \/ \E ch \in OrderChans : UnsubscribeOrdered(ch)
    \/ \E ch \in OrderChans : Receive(ch)

SpecOrder == Init /\ [][OrderNext]_vars

(***************************************************************************)
(* The FileWatcher of EnableHotReload and the long-poll endpoint of the    *)
(* application, polled at any time.                                        *)
(***************************************************************************)
PollPaths == {IndexHtml, AppCss, MainGo, ReadmeMd}

PollEvent ==
    \E p \in PollPaths :
        /\ stats.TotalChanges < MaxPollChanges
        /\ HandleEvent([Name |-> p, Op |-> {"Write"}])

PollNext ==
    \/ \E ok \in BOOLEAN : Start(ok, {})
    \/ PollEvent
    \/ HandleEventClassifyTimed
    \/ HandleEventStats
    \/ HandleEventNotify
    \/ Poll
    \/ Tick

SpecPoll == Init /\ [][PollNext]_vars

(***************************************************************************)
(* The FileWatcher with one path of every kind in each behaviour: the      *)
(* classification.                                                         *)
(***************************************************************************)
ClassifyPaths ==
    {MainGo, IndexHtml, ReadmeMd, PageTmpl, AppCss, BundleJs, XTs, FormJsx,
     FormTsx, UpperHtml, Makefile, DottedDir, MainGoBak, MinJs, DotGoFile}
ClassifyOps == {{"Write"}, {"Create"}, {"Remove"}}

ClassifyEvent ==
    \E p \in ClassifyPaths, op \in ClassifyOps :
        /\ stats.TotalChanges < MaxEventChanges
        /\ DOMAIN debounce \subseteq {p}
        /\ HandleEvent([Name |-> p, Op |-> op])

ClassifyNext ==
    \/ \E ok \in BOOLEAN : Start(ok, {})
    \/ ClassifyEvent
    \/ HandleEventClassify
    \/ HandleEventStats
    \/ HandleEventNotify
    \/ EventSubscribe
    \/ \E ch \in EventChans : Receive(ch)
    \/ Tick

SpecClassify == Init /\ [][ClassifyNext]_vars

(***************************************************************************)
(* Properties of the supervisor, checked under SpecSup.                    *)
(***************************************************************************)

\* C1: at every instant at most one child process spawned by the supervisor
\* is alive, and it is the one cmd refers to; a restart sends the current
\* child a Kill and waits for it, so that at the moment of a spawn no child is
\* alive; this for every sequence of starts, timer fires, spawn failures and
\* spontaneous exits.
C1_OneChild ==
    /\ Cardinality(alive) <= 1
    /\ alive \subseteq {cmd.proc}
    /\ supPc = "wait" => HasProcess /\ cmd.proc \in killed
    /\ supPc = "spawn" => alive = {}
    /\ supPc = "spawn" /\ HasProcess => cmd.proc \in killed

\* a restart has replaced a child that was still running: the old child was
\* killed and has exited, the new one is alive
C1_Witness ==
    /\ supPc = "select"
    /\ gen >= 2
    /\ alive = {gen}
    /\ cmd.proc = gen
    /\ (gen - 1) \in killed
    /\ cycles = 1

NotIgnored(path) ==
    path # <<>> /\ TableCategory(path) # "Ignored"

\* C3: for a path that is not Ignored, the first raw event is admitted, and
\* a raw event that reaches handleEvent less than the debounce window after
\* the admitted one is dropped, so that the two give one admitted event; the
\* dropped event updates no statistics, calls no reload target and is
\* delivered to no subscriber: the pump is back at its select with nothing
\* changed.
C3_SecondInsideWindowDropped ==
    /\ [](NotIgnored(verdict.Name) /\ verdict.first => verdict.passed)
    /\ [](NotIgnored(verdict.Name) /\ ~verdict.first
             /\ verdict.gap < DebounceWindow => ~verdict.passed)
    /\ [][verdict' # verdict /\ ~verdict'.passed =>
             /\ pumpPc' = "select" /\ cur' = NoEvent
             /\ admitted' = admitted
             /\ UNCHANGED <<stats, app, chans, subscribers, eventType>>]_vars

\* two events for main.go less than a window apart: one admitted, counted
\* and delivered, the other dropped
C3_Witness ==
    /\ verdict.Name = MainGo
    /\ ~verdict.first /\ verdict.gap < DebounceWindow /\ ~verdict.passed
    /\ verdict.streak = 0
    /\ pumpPc = "select"
    /\ admitted = 1
    /\ Stats.TotalChanges = 1 /\ Stats.CodeChanges = 1
    /\ subscribers = <<1>> /\ Len(chans[1].buf) = 1

\* C4: for a path that is not Ignored, a raw event that reaches handleEvent
\* at least the debounce window (the boundary included) after the admitted
\* one is admitted too: it passes shouldProcess, is counted as admitted and
\* goes on to classification.
C4_SecondOutsideWindowAdmitted ==
    /\ [](NotIgnored(verdict.Name) /\ ~verdict.first
             /\ verdict.gap >= DebounceWindow => verdict.passed)
    /\ [][pumpPc = "select" /\ pumpPc' = "classify" =>
             /\ verdict'.passed /\ cur'.Name = verdict'.Name
             /\ NotIgnored(cur'.Name) => admitted' = admitted + 1]_vars

\* views/home/index.html at t = 0 (admitted), inside the window (dropped)
\* and a window after t = 0 (admitted): two Template events
C4_Witness ==
    /\ verdict.Name = IndexHtml
    /\ ~verdict.first /\ verdict.gap >= DebounceWindow /\ verdict.passed
    /\ verdict.streak = 1
    /\ pumpPc = "select"
    /\ admitted = 2
    /\ Stats.TotalChanges = 2 /\ Stats.TemplateChanges = 2
    /\ subscribers = <<1>> /\ Len(chans[1].buf) = 2

(***************************************************************************)
(* Properties of the fan-out, checked under Spec.                          *)
(***************************************************************************)
Registered(ch) ==
    \E i \in DOMAIN subscribers : subscribers[i] = ch

\* C5: publishing an admitted event never blocks the pump, whatever the
\* fill of the buffers: the publish step can always be taken, and it takes
\* every registered subscriber in turn: one whose buffer holds ChanCap
\* events keeps its buffer as it is (it misses the event), every other one
\* has the event appended to its buffer.
C5_PublishNeverBlocks ==
    /\ [](pumpPc = "notify" /\ panicked = "none" => ENABLED HandleEventNotify)
    /\ [][pumpPc = "notify" /\ pumpPc' = "select" =>
             \A ch \in DOMAIN chans :
                 IF Registered(ch) /\ Len(chans[ch].buf) < ChanCap
                 THEN chans'[ch].buf =
                          Append(chans[ch].buf,
                                 [Path |-> cur.Name, EventType |-> eventType])
                 ELSE chans'[ch].buf = chans[ch].buf]_vars

\* the latest publish found the buffer of subscriber 1 full, which still
\* holds its ChanCap events, and subscriber 2 with room
C5_Witness ==
    /\ pumpPc = "select" /\ panicked = "none"
    /\ lastPublish.subs = <<1, 2>>
    /\ lastPublish.full = {1}
    /\ Len(chans[1].buf) = ChanCap
    /\ Len(chans[2].buf) >= 1

\* C6: Stats().TotalChanges is the number of admitted events (passed by the
\* debounce, not Ignored), less the one the pump has admitted but not yet
\* counted: it goes up by exactly one for each admitted event, whatever the
\* number of subscribers and whether or not a delivery was dropped.
C6_TotalCountsAdmitted ==
    Stats.TotalChanges =
        admitted - (IF pumpPc \in {"classify", "stats"} /\ NotIgnored(cur.Name)
                    THEN 1 ELSE 0)

\* more admitted events than a buffer holds, the latest one dropped for a
\* subscriber whose buffer was full, and all of them counted
C6_Witness ==
    /\ pumpPc = "select"
    /\ lastPublish.full # {}
    /\ admitted > ChanCap
    /\ Stats.TotalChanges = admitted

(***************************************************************************)
(* Properties of Subscribe, Unsubscribe and Close, checked under SpecLife. *)
(***************************************************************************)
Without(subs, ch) ==
    LET Other(x) == x # ch IN SelectSeq(subs, Other)

\* C7: Unsubscribe(ch) on a registered channel closes it, once (the channel
\* was open, and no close of a closed channel ever happens), and removes it
\* from the subscriber list, leaving the other channels as they are;
\* Unsubscribe on a channel that is not registered (unknown, already
\* unsubscribed, or closed by Close) changes nothing and does not panic.
C7_Unsubscribe ==
    /\ [](panicked # "close of closed channel")
    /\ [][\A ch \in LifeChans \cup {0} :
             Unsubscribe(ch) =>
                 IF Registered(ch)
                 THEN /\ ~chans[ch].closed /\ chans'[ch].closed
                      /\ chans'[ch].buf = chans[ch].buf
                      /\ \A o \in DOMAIN chans \ {ch} : chans'[o] = chans[o]
                      /\ subscribers' = Without(subscribers, ch)
                      /\ panicked' = "none"
                 ELSE UNCHANGED vars]_vars

\* channel 1 was unsubscribed: it is closed and off the list, and the other
\* two subscriptions are as they were
C7_Witness ==
    /\ Len(chans) = 3
    /\ chans[1].closed /\ ~chans[2].closed /\ ~chans[3].closed
    /\ subscribers = <<2, 3>>
    /\ fwWatcher = "open" /\ lastClose = {}
    /\ panicked = "none"

\* C8: Close on a watcher that was started closes every channel that is
\* still registered, once (each was open), closes no other channel (so a
\* second Close closes none again), empties the subscriber list and does
\* not panic; the counters Stats() returns are as before.
C8_Close ==
    [][Close /\ fwWatcher # "nil" =>
          /\ \A ch \in DOMAIN chans :
                 IF Registered(ch)
                 THEN ~chans[ch].closed /\ chans'[ch].closed
                      /\ chans'[ch].buf = chans[ch].buf
                 ELSE chans'[ch] = chans[ch]
          /\ subscribers' = <<>>
          /\ fwWatcher' = "closed"
          /\ panicked' = "none"
          /\ Stats' = Stats]_vars

\* Close with three active subscriptions: all three channels closed by that
\* one call, the list empty, the counters still there
C8_Witness ==
    /\ lastClose = {1, 2, 3}
    /\ \A ch \in {1, 2, 3} : chans[ch].closed
    /\ subscribers = <<>>
    /\ fwWatcher = "closed"
    /\ panicked = "none"
    /\ Stats.TotalChanges >= 1

\* C9: whatever the interleaving of the pump's publish with Subscribe,
\* Unsubscribe and Close, no event is sent on a closed channel: every
\* channel on the subscriber list is open, and the send-on-closed-channel
\* panic never happens, also for an event published after Close.
C9_NoSendOnClosed ==
    /\ panicked # "send on closed channel"
    /\ \A i \in DOMAIN subscribers : ~chans[subscribers[i]].closed

\* an event was published after Close, with channel 1 closed by
\* Unsubscribe and channels 2 and 3 closed by Close
C9_Witness ==
    /\ lastPublish.watcher = "closed"
    /\ lastClose = {2, 3}
    /\ \A ch \in {1, 2, 3} : chans[ch].closed
    /\ pumpPc \in {"select", "done"}
    /\ panicked = "none"

(***************************************************************************)
(* Properties of the classification, checked under SpecClassify.           *)
(***************************************************************************)
\* the EventType string of a category
EventTypeOf(category) ==
    CASE category = "Template" -> "template"
      [] category = "Asset" -> "asset"
      [] category = "Code" -> "code"
      [] category = "Ignored" -> ""

CountersOf(category) ==
    [TemplateChanges |-> IF category = "Template" THEN 1 ELSE 0,
     AssetChanges |-> IF category = "Asset" THEN 1 ELSE 0,
     CodeChanges |-> IF category = "Code" THEN 1 ELSE 0]

\* C10: the category of an event is the one the table gives for the exact
\* extension of its path: the event the pump counts and publishes carries
\* it, the counter of that category is the one that goes up, and every
\* event delivered carries it; for an Ignored path (no extension of the
\* table, or one that differs in case) the pump returns to its select with
\* no counter changed, no reload target called and nothing delivered.
C10_CategoryByExtension ==
    /\ [](pumpPc \in {"stats", "notify"} =>
             /\ NotIgnored(cur.Name)
             /\ eventType = EventTypeOf(TableCategory(cur.Name)))
    /\ [](\A ch \in DOMAIN chans : \A k \in DOMAIN chans[ch].buf :
             LET e == chans[ch].buf[k] IN
             /\ NotIgnored(e.Path)
             /\ e.EventType = EventTypeOf(TableCategory(e.Path)))
    /\ [][pumpPc = "classify" /\ pumpPc' # "classify" =>
             IF NotIgnored(cur.Name)
             THEN /\ pumpPc' = "stats"
                  /\ eventType' = EventTypeOf(TableCategory(cur.Name))
             ELSE /\ pumpPc' = "select"
                  /\ UNCHANGED <<stats, app, chans, admitted>>]_vars
    /\ [][pumpPc = "stats" /\ pumpPc' # "stats" =>
             LET c == CountersOf(TableCategory(cur.Name)) IN
             /\ Stats'.TemplateChanges = Stats.TemplateChanges + c.TemplateChanges
             /\ Stats'.AssetChanges = Stats.AssetChanges + c.AssetChanges
             /\ Stats'.CodeChanges = Stats.CodeChanges + c.CodeChanges]_vars

\* an event for INDEX.HTML passed the debounce and was classified: nothing
\* was counted, reloaded or delivered
C10_Witness ==
    /\ verdict.Name = UpperHtml /\ verdict.passed
    /\ pumpPc = "select"
    /\ Stats.TotalChanges = 0
    /\ app = [renderer |-> 0, lastChangeTime |-> 0]
    /\ subscribers = <<1>> /\ chans[1].buf = <<>>

SkippedName(name) ==
    \/ (name # DotName /\ HasDotPrefix(name))
    \/ name \in {VendorName, NodeModulesName}

Eligible(dir) ==
    \A i \in 1..Len(dir) : ~SkippedName(dir[i])

C12_RootTreeRegistered ==
    supPc \notin {"boot", "fatal"} =>
        \A dir \in DOMAIN tree : Eligible(dir) => dir \in watched

(***************************************************************************)
(* C14.  When the supervisor has exited because of the cancellation, the   *)
(* child it spawned last has terminated.                                   *)
(* The cancellation branch sends the Kill and returns without cmd.Wait()   *)
(* (dev.go:220-224): the child can still be running.                       *)
(***************************************************************************)
C14_ChildGoneAtExit ==
    supPc = "exited" => alive = {}

C16_AssetSurvivesSupervisor ==
    supPc = "fatal" => assetPc \notin {"killed"}

(***************************************************************************)
(* C17.  When the build tool is unavailable for the whole run, the         *)
(* degradation is reported exactly once over startup and all later Asset   *)
(* events, and every handling of assets (the one at startup and one per    *)
(* rebuild) is a verbatim copy.                                            *)
(* The asset loop calls buildAssets at every rebuild, logs its failure     *)
(* every time and copies nothing (dev.go:141-147).                         *)
(***************************************************************************)
C17_DegradedOnce ==
    bun = "unavailable" =>
        /\ devLog.degraded + devLog.failed = 1
        /\ fallbacks = 1 + builds

(***************************************************************************)
(* C18.  When the registration of one subdirectory fails during Start,     *)
(* the failure is logged, Start succeeds and starts the pump, and every    *)
(* other directory under the roots that is not ignored (the remaining      *)
(* subdirectories of the same root and all other roots) is registered.     *)
(* The failing Add is returned from the callback of filepath.Walk, which   *)
(* abandons the walk of that root: the subdirectories of the root that     *)
(* come after the failing one are not registered.                          *)
(***************************************************************************)
FwSkippedName(name) ==
    HasDotPrefix(name) \/ name = NodeModulesName

\* a directory under one of the roots with no ignored name on its path
FwEligible(dir) ==
    /\ dir \in DOMAIN AppTree
    /\ \E i \in DOMAIN watchDirs :
          /\ Len(dir) >= Len(watchDirs[i])
          /\ SubSeq(dir, 1, Len(watchDirs[i])) = watchDirs[i]
    /\ \A i \in 1..Len(dir) : ~FwSkippedName(dir[i])

C18_OthersRegistered ==
    (\E sub \in addFails : Len(sub) = 2) =>
        /\ fwLog # {}
        /\ fwWatcher = "open" /\ pumpPc # "none"
        /\ \A dir \in DOMAIN AppTree :
              (FwEligible(dir) /\ dir \notin addFails) => dir \in fwWatched

(***************************************************************************)
(* C13.  Once the cancellation token is triggered, every long-lived loop   *)
(* that was started (the pump of the FileWatcher, the supervisor loop, the *)
(* asset loop) eventually terminates, its notifier closed.                 *)
(* Watch drops its context (watcher.go:87-90) and processEvents has no     *)
(* case for it (watcher.go:110-125): the pump goes on until somebody calls *)
(* Close.                                                                  *)
(***************************************************************************)
LoopsStopped ==
    /\ pumpPc \in {"none", "done"}
    /\ pumpPc = "done" => fwWatcher = "closed"
    /\ supPc \in {"exited", "fatal"}
    /\ assetPc \in {"none", "failed", "exited", "killed"}

C13_LoopsStop ==
    cancelled ~> LoopsStopped

(***************************************************************************)
(* C19.  Any two FileChangeEvents for one path that are delivered to the   *)
(* same subscriber have Timestamp fields at least 500 ms apart, however    *)
(* long the handling takes between the debounce check and the making of    *)
(* the event.                                                              *)
(* The window is measured between the instants of the debounce checks      *)
(* (watcher.go:184); the Timestamp is taken later (watcher.go:169), after  *)
(* the handling, so a slow handling of the first event brings the two      *)
(* Timestamps closer than the window.                                      *)
(***************************************************************************)
C19_StampsWindowApart ==
    stampGap.both => stampGap.gap >= DebounceWindow

(***************************************************************************)
(* C20.  Every delivery that is dropped because a buffer was full is       *)
(* counted, in a counter of the statistics that is none of the counters of *)
(* processed events: once deliveries have been dropped, Stats() has a      *)
(* field, other than TotalChanges, the per-category counters and           *)
(* LastChangeTime, that holds their number.                                *)
(* WatcherStats has no such field (watcher.go:21-28) and the default       *)
(* branch of notifySubscribers counts nothing (watcher.go:248-250).        *)
(***************************************************************************)
ProcessedFields ==
    {"TotalChanges", "TemplateChanges", "AssetChanges", "CodeChanges",
     "LastChangeTime"}

C20_DropsCounted ==
    drops > 0 => \E f \in DOMAIN Stats \ ProcessedFields : Stats[f] = drops

(***************************************************************************)
(* C21: every call of Close emits the final statistics summary, whatever   *)
(* happened before it: with no admitted event, after watcher errors, and   *)
(* when closing the notifier fails.                                        *)
(***************************************************************************)
C21_SummaryEveryClose ==
    summary # "none" => summary = "logged"

(***************************************************************************)
(* C22: the long-poll endpoint answers changed = true exactly when it is   *)
(* polled less than 2 s after the latest admitted event with a category    *)
(* (Template, Asset or Code), and changed = false otherwise, also before   *)
(* the first event.                                                        *)
(***************************************************************************)
C22_ChangedIffRecent ==
    poll.polled => (poll.changed <=> poll.expected)

(***************************************************************************)
(* C23: over any sequence of Start, Watch and Close calls on one           *)
(* FileWatcher there is at most one open notifier and at most one pump at  *)
(* any time, and once Close was called no notifier made by the             *)
(* FileWatcher is open and no pump is left waiting on one.                 *)
(***************************************************************************)
C23_OneNotifierOnePump ==
    /\ Notifiers <= 1
    /\ Pumps <= 1
    /\ fwWatcher = "closed" => Notifiers = 0

(***************************************************************************)
(* C24: the asset coordinator schedules a rebuild for an event if and only *)
(* if the category of the event under the classification table of the     *)
(* watcher is Asset (extension .css, .js, .ts, .jsx or .tsx): no Asset     *)
(* event is ignored, and no other event schedules a rebuild.               *)
(***************************************************************************)
C24_RebuildIffAsset ==
    assetLast.Name # <<>> =>
        (assetLast.reset <=> TableCategory(assetLast.Name) = "Asset")

(***************************************************************************)
(* C25: when the child exits on its own, the supervisor does not spawn a   *)
(* replacement: the exit changes nothing in the supervisor, a spawn other  *)
(* than the first is attempted only in a restart cycle begun by the        *)
(* restart timer, and the timer is armed only by the step that receives a  *)
(* qualifying Code event; and that restart does not block on the dead      *)
(* child, its Wait returning although the child was gone before the Kill.  *)
(***************************************************************************)
C25_NoAutoRestart ==
    /\ [](/\ ((supPc \in {"startServer", "wait", "spawn"} /\ cmd.set)
                 => (sinceEv.seen /\ cycles >= 1))
          /\ (timer.armed => (sinceEv.seen /\ cycles = 0))
          /\ ((supPc = "wait" /\ cmd.proc \in selfExited)
                 => ENABLED StartServerWait))
    /\ [][/\ ((selfExited' # selfExited)
                 => (/\ supPc' = supPc /\ cmd' = cmd /\ gen' = gen
                     /\ timer' = timer /\ killed' = killed))
           /\ ((timer'.armed /\ ~timer.armed)
                 => (supLast'.reset /\ sinceEv'.seen /\ sinceEv'.ms = 0))]_vars

\* child 1 exited on its own, and child 2 was spawned by a restart
C25_Witness ==
    /\ 1 \in selfExited
    /\ cmd.proc = 2 /\ 2 \in alive
    /\ supPc = "select"

(***************************************************************************)
(* C26: every read of the renderer of the application (RenderHTML,         *)
(* RenderJSON, RenderError, the long-poll handler among their callers) is  *)
(* mutually exclusive with ReloadTemplates replacing the renderer from    *)
(* the pump: the field is never read while it is being written.            *)
(***************************************************************************)
C26_RenderExclusive ==
    ~(pumpPc = "reload" /\ render.pc = "reading")

(***************************************************************************)
(* C27: every snapshot returned by Stats(), at any point of any            *)
(* interleaving with the pump, has TotalChanges = TemplateChanges +        *)
(* AssetChanges + CodeChanges, no counter of a later snapshot is smaller   *)
(* than in an earlier one, and Subscribe, Unsubscribe and Close leave the  *)
(* counters as they are.                                                   *)
(***************************************************************************)
Counters ==
    {"TotalChanges", "TemplateChanges", "AssetChanges", "CodeChanges"}

C27_SnapshotsConsistent ==
    /\ [](/\ snaps.last.TotalChanges =
                snaps.last.TemplateChanges + snaps.last.AssetChanges
                    + snaps.last.CodeChanges
          /\ \A f \in Counters : snaps.prev[f] <= snaps.last[f])
    /\ [][(caller' # caller \/ closer' # closer) => stats' = stats]_vars

\* a snapshot was returned after the first change, and Stats() is called
\* again while the pump has counted the second change in TotalChanges only
C27_Witness ==
    /\ snaps.last.TotalChanges = 1
    /\ caller.op = "Stats"
    /\ pumpPc = "statsCategory"

(***************************************************************************)
(* C28: no interleaving of the pump (debounce lock, then statistics lock,  *)
(* then the read lock of the subscribers) with Subscribe, Unsubscribe,     *)
(* Stats and Close (which takes the read lock of the statistics while it   *)
(* holds the write lock of the subscribers) ends in a deadlock: every      *)
(* call returns, and every event taken up by the pump is handled to the    *)
(* end.                                                                    *)
(***************************************************************************)
C28_EveryCallReturns ==
    /\ (caller.op # "none") ~> (caller.op = "none")
    /\ (closer = "wait") ~> (closer = "done")
    /\ (pumpPc \notin {"none", "select", "done"}) ~> (pumpPc \in {"select", "done"})

\* Close holds the lock of the subscribers and waits for the lock of the
\* statistics, which the pump holds, while another call waits too
C28_Witness ==
    /\ closer = "locked" /\ mu.writer = "closer"
    /\ statsMu.writer = "pump"
    /\ caller.op # "none"

(***************************************************************************)
(* C29: the debounce entry of a path is written exactly when an event for  *)
(* that path passes the window check: an event that is dropped leaves the  *)
(* map as it is, an event that passes sets the entry of its path to the    *)
(* present instant, also when its extension is then ignored, no other      *)
(* step writes an entry, and no entry is ever removed.                     *)
(***************************************************************************)
Written(p) ==
    /\ p \in DOMAIN debounce'
    /\ debounce'[p] = 0
    /\ (p \in DOMAIN debounce => debounce[p] # 0)

C29_WrittenIffPassed ==
    [][/\ DOMAIN debounce \subseteq DOMAIN debounce'
       /\ \A p \in DOMAIN debounce' :
             Written(p) =>
                 /\ pumpPc = "select"
                 /\ verdict'.Name = p /\ verdict'.passed
                 /\ (p \in DOMAIN debounce => debounce[p] >= DebounceWindow)
       /\ (pumpPc = "select" /\ (pumpPc' = "classify" \/ verdict' # verdict)) =>
             IF verdict'.passed
             THEN /\ Written(verdict'.Name)
                  /\ \A p \in DOMAIN debounce : 
                        p # verdict'.Name => debounce'[p] = debounce[p]
             ELSE debounce' = debounce]_vars

\* README.md, whose extension is ignored, has an entry, and the latest
\* event for main.go was dropped 100 ms or more after the one that passed,
\* the entry still holding the instant of that one
C29_Witness ==
    /\ ReadmeMd \in DOMAIN debounce
    /\ verdict.Name = MainGo /\ ~verdict.passed
    /\ debounce[MainGo] > 0 /\ debounce[MainGo] < DebounceWindow

(***************************************************************************)
(* C30.  What a subscriber receives, against what was admitted.  An event  *)
(* is admitted when shouldProcess accepts it (watcher.go:130) and is put   *)
(* into the buffers by notifySubscribers (watcher.go:176), which takes     *)
(* mu.RLock only then: a Subscribe between the two registers a channel     *)
(* that the event on its way is then sent to.                              *)
(***************************************************************************)

\* the numbers of s go up strictly: nothing twice, nothing out of order
Ascending(s) ==
    \A i \in 1..(Len(s) - 1) : s[i] < s[i + 1]

\* what holds of the deliveries to a channel whenever they are counted from
\* the events numbered above from: they are admitted events, in admission
\* order, none twice, none admitted after the channel was unsubscribed
DeliveredAfter(o, from) ==
    /\ Ascending(o.got)
    /\ \A i \in DOMAIN o.got :
          /\ o.got[i] > from
          /\ o.got[i] <= admitted
          /\ o.unreg >= 0 => o.got[i] <= o.unreg

\* C30 as stated: for every subscriber the events it receives are a
\* subsequence of the admitted events in admission order, none twice, none
\* admitted before it registered and none admitted after it was unsubscribed
C30_OnlyEventsAdmittedLater ==
    \A ch \in DOMAIN order : DeliveredAfter(order[ch], order[ch].reg)

\* C30: for every subscriber the events it receives are a subsequence of
\* the admitted events in admission order, none twice, none whose
\* notifySubscribers call had returned before it registered and none
\* admitted after it was unsubscribed; the event that is admitted but not
\* yet published when it registers is among them
C30_DeliveredInOrder ==
    \A ch \in DOMAIN order : DeliveredAfter(order[ch], order[ch].pub)

\* channel 2 registered while event 2 was between shouldProcess and
\* notifySubscribers, got it and the next one, and was unsubscribed; channel
\* 1 had got event 1 before
C30_Witness ==
    /\ Len(order) = 2
    /\ order[1].got = <<1, 2, 3>>
    /\ order[2].reg = 2 /\ order[2].pub = 1
    /\ order[2].got = <<2, 3>>
    /\ order[2].unreg = 3

====
